---- MODULE Spec2Model ----
(***************************************************************************)
(* The scan engine of scan.c: state_scan reconciles the catalog of a data  *)
(* disk (files, links, empty dirs, parity block map) with the entries of   *)
(* its filesystem.  One disk is modelled; every operator below takes the   *)
(* "world" w = [disk, state, scan, log, hist, err] the C functions work on *)
(* and returns the world they leave behind.                                *)
(***************************************************************************)
EXTENDS Integers, Sequences, FiniteSets, TLC

VARIABLES
    disk,   \* struct snapraid_disk: containers, block array, first free block
    state,  \* struct snapraid_state: need_write, clear_undeterminate_hash, opt
    scan,   \* struct snapraid_scan: counters and delayed insert lists
    log,    \* the records written to stdlog (opt.gui) and the message of a
            \* fatal error, in order
    hist,   \* history: one record per block turned into a deleted block
    fs,     \* the filesystem of the disk (read only during the scan)
    output, \* the argument output of state_scan: print what differs
    pc,     \* position inside state_scan
    local,  \* the locals of state_scan: calls scan_dir still has to make,
            \* the node of the insert loop, the physical offset counters
    run,    \* number of the current state_scan run
    load    \* history: the catalog each run started from, what earlier runs
            \* reported

vars == <<disk, state, scan, log, hist, fs, output, pc, local, run, load>>

-----------------------------------------------------------------------------
(* Program constants *)

STAT_NSEC_INVALID == -1
HASH_ZERO == 0
HASH_UNINIT == -2
POS_INVALID == -1
BlockSize == 2
DiskDevice == 1

BLOCK_EMPTY == [kind |-> "empty", id |-> 0, idx |-> 0]

-----------------------------------------------------------------------------
(* Containers *)

NoObj == 0

\* tommy_hashdyn_search: the first object of the bucket chain whose key
\* compares equal to the argument, 0 when there is none
tommy_hashdyn_search(set, key, arg) ==
    LET hits == {i \in 1..Len(set) : key[set[i]] = arg}
    IN  IF hits = {} THEN NoObj
        ELSE set[CHOOSE i \in hits : \A j \in hits : i <= j]

\* tommy_hashdyn_remove_existing / tommy_list_remove_existing
tommy_remove_existing(set, obj) == SelectSeq(set, LAMBDA x : x # obj)

\* tommy_hashdyn_insert / tommy_list_insert_tail
tommy_insert_tail(set, obj) == Append(set, obj)

\* tommy_list_sort: a stable sort, ascending by key
tommy_list_sort(s, key) ==
    LET n == Len(s)
        rank(i) == 1 + Cardinality({j \in 1..n :
                         \/ key[s[j]] < key[s[i]]
                         \/ key[s[j]] = key[s[i]] /\ j < i})
    IN  [p \in 1..n |-> s[CHOOSE i \in 1..n : rank(i) = p]]

\* remove a key of a function
Drop(f, k) == [x \in DOMAIN f \ {k} |-> f[x]]

\* the keys the sets of a disk are searched by
file_path_compare(d) == [f \in DOMAIN d.files |-> d.files[f].sub]
file_inode_compare_to_arg(d) == [f \in DOMAIN d.files |-> d.files[f].inode]
link_name_compare(d) == [l \in DOMAIN d.links |-> d.links[l].sub]
dir_name_compare(d) == [x \in DOMAIN d.dirs |-> d.dirs[x].sub]

-----------------------------------------------------------------------------
(* Output and errors *)

\* if (state->opt.gui) fprintf(stdlog, "scan:<ev>:<disk>:<sub>[:<to>]")
Emit(w, ev, sub, to) ==
    IF w.state.opt.gui
    THEN [w EXCEPT !.log = Append(@, [ev |-> ev, sub |-> sub, to |-> to])]
    ELSE w

\* fprintf(stderr, ...); exit(EXIT_FAILURE)
Fatal(w, what) == [w EXCEPT !.err = what]

\* the record of the message of a fatal error
Failure(what) == [ev |-> "fatal", sub |-> <<what>>, to |-> <<>>]

Count(w, counter) == [w EXCEPT !.scan[counter] = @ + 1]

NeedWrite(w) == [w EXCEPT !.state.need_write = TRUE]

-----------------------------------------------------------------------------
(* Blocks *)

\* the block a cell of the block array points to
block_deref(d, cell) ==
    IF cell.kind = "file" THEN d.files[cell.id].blockvec[cell.idx]
    ELSE d.deleted[cell.id]

block_state_get(d, cell) == block_deref(d, cell).state

\* write the hash of the block a cell of the array points to
block_hash_set(d, cell, hash) ==
    IF cell.kind = "file"
    THEN [d EXCEPT !.files[cell.id].blockvec[cell.idx].hash = hash]
    ELSE [d EXCEPT !.deleted[cell.id].hash = hash]

block_has_file(d, cell) ==
    /\ cell # BLOCK_EMPTY
    /\ block_state_get(d, cell) # "DELETED"

\* tommy_arrayblk_get / _set / _size / _grow, slots count from 0
tommy_arrayblk_get(d, pos) == d.blockarr[pos + 1]
tommy_arrayblk_set(d, pos, cell) == [d EXCEPT !.blockarr[pos + 1] = cell]
tommy_arrayblk_size(d) == Len(d.blockarr)

\* the blocks a file of the given size has
file_blockmax(size) == (size + BlockSize - 1) \div BlockSize

\* deleted_dup: a deleted block holding the position and the hash of a block
deleted_dup(block) ==
    [parity_pos |-> block.parity_pos, state |-> "DELETED", hash |-> block.hash]

-----------------------------------------------------------------------------
(* scan_file_remove *)

\* the switch on the state of a block to delete: is the state a legal one
remove_state_ok(block_state) == block_state \in {"BLK", "CHG", "NEW"}

\* mutants of remove_hash: the option is not looked at; the case of BLK
\* falls into the case of CHG and NEW
remove_hash_keep(st, block) == block.hash

remove_hash_fall(st, block) ==
    IF ~st.clear_undeterminate_hash THEN HASH_ZERO ELSE block.hash

\* the switch on the state of a block to delete: the hash the block is left
\* with, BLK keeps it, CHG and NEW lose it unless the undeterminate hashes
\* were already cleared
remove_hash(st, block) ==
    IF block.state = "BLK" THEN block.hash
    ELSE IF ~st.clear_undeterminate_hash THEN HASH_ZERO
    ELSE block.hash

\* the adjusted first free position
remove_first_free(first_free_block, block_pos) ==
    IF first_free_block > block_pos THEN block_pos ELSE first_free_block

\* one round of the loop freeing the blocks of a file
remove_block(w, file, i) ==
    LET d == w.disk
        block == d.files[file].blockvec[i]
        block_pos == block.parity_pos
        d1 == [d EXCEPT !.first_free_block = remove_first_free(@, block_pos)]
    IN  IF ~remove_state_ok(block.state)
        THEN Fatal([w EXCEPT !.disk = d1], "block state")
        ELSE
        LET kept == [block EXCEPT !.hash = remove_hash(w.state, block)]
            del == d1.nextid
            d2 == [d1 EXCEPT !.files[file].blockvec[i] = kept,
                             !.nextid = @ + 1,
                             !.deleted = @ @@ (del :> deleted_dup(kept)),
                             !.deletedlist = tommy_insert_tail(@, del)]
            d3 == tommy_arrayblk_set(d2, block_pos,
                      [kind |-> "deleted", id |-> del, idx |-> 0])
        IN  [w EXCEPT !.disk = d3,
                      !.hist = Append(@, [del |-> del, pos |-> block_pos,
                                          state |-> block.state,
                                          hash |-> block.hash])]

RECURSIVE remove_blocks(_, _, _)
remove_blocks(w, file, i) ==
    IF w.err # "" \/ i > Len(w.disk.files[file].blockvec) THEN w
    ELSE remove_blocks(remove_block(w, file, i), file, i + 1)

\* remove the file from the file containers and deallocate it
remove_containers(d, file) ==
    [d EXCEPT !.inodeset = IF ~d.files[file].without_inode
                           THEN tommy_remove_existing(@, file) ELSE @,
              !.pathset = tommy_remove_existing(@, file),
              !.filelist = tommy_remove_existing(@, file),
              !.files = Drop(@, file)]

scan_file_remove(w, file) ==
    LET w1 == remove_blocks(NeedWrite(w), file, 1)
    IN  IF w1.err # "" THEN w1
        ELSE [w1 EXCEPT !.disk = remove_containers(@, file)]

-----------------------------------------------------------------------------
(* scan_file_insert *)

\* mutants of insert_find_free: the position is taken as it is; one
\* position is skipped, not all
insert_find_free_noskip(d, block_pos, block_max) == block_pos

insert_find_free_once(d, block_pos, block_max) ==
    IF block_pos < block_max /\ block_has_file(d, tommy_arrayblk_get(d, block_pos))
    THEN block_pos + 1
    ELSE block_pos

\* find a free block: skip the positions that hold a block of a file
RECURSIVE insert_find_free(_, _, _)
insert_find_free(d, block_pos, block_max) ==
    IF block_pos < block_max /\ block_has_file(d, tommy_arrayblk_get(d, block_pos))
    THEN insert_find_free(d, block_pos + 1, block_max)
    ELSE block_pos

\* mutants of insert_deleted_hash: the hash is never reset; it is always
\* reset
insert_deleted_hash_keep(st, deleted) == deleted.hash

insert_deleted_hash_always(st, deleted) == HASH_ZERO

\* the hash a deleted block is left with when its position is taken again
insert_deleted_hash(st, deleted) ==
    IF ~st.clear_undeterminate_hash THEN HASH_ZERO ELSE deleted.hash

\* the state and the hash of a new block that overwrites the given cell
insert_block(d, st, cell, block) ==
    IF cell = BLOCK_EMPTY
    THEN [block EXCEPT !.state = "NEW"]
    ELSE [block EXCEPT !.state = "CHG",
                       !.hash = insert_deleted_hash(st, block_deref(d, cell))]

\* mutants of insert_first_free: the first free position is the position of
\* the last block; it is one position too far
insert_first_free_last(block_pos) == block_pos

insert_first_free_far(block_pos) == block_pos + 2

\* the new free position
insert_first_free(block_pos) == block_pos + 1

\* one round of the loop allocating the blocks of a file; r = [w, block_pos]
insert_round(r, file, i) ==
    LET d == r.w.disk
        found == insert_find_free(d, r.block_pos, tommy_arrayblk_size(d))
        d1 == IF found = tommy_arrayblk_size(d)
              THEN [d EXCEPT !.blockarr = Append(@, BLOCK_EMPTY)] ELSE d
    IN  IF found > tommy_arrayblk_size(d)
        THEN [w |-> Fatal(r.w, "block array overrun"), block_pos |-> found]
        ELSE
        LET cell == tommy_arrayblk_get(d1, found)
            d2 == IF cell = BLOCK_EMPTY THEN d1
                  ELSE block_hash_set(d1, cell,
                           insert_deleted_hash(r.w.state, block_deref(d1, cell)))
            block == insert_block(d1, r.w.state, cell,
                         [d1.files[file].blockvec[i] EXCEPT !.parity_pos = found])
            d3 == [d2 EXCEPT !.files[file].blockvec[i] = block]
            d4 == tommy_arrayblk_set(d3, found,
                      [kind |-> "file", id |-> file, idx |-> i])
        IN  [w |-> [r.w EXCEPT !.disk = d4], block_pos |-> found]

RECURSIVE insert_blocks(_, _, _)
insert_blocks(r, file, i) ==
    IF r.w.err # "" \/ i > Len(r.w.disk.files[file].blockvec) THEN r
    ELSE insert_blocks(insert_round(r, file, i), file, i + 1)

\* mutant of scan_file_insert: the search of a free block starts from the end
\* of the block array
scan_file_insert_fromend(w, file) ==
    LET w0 == NeedWrite(w)
        r == insert_blocks([w |-> w0, block_pos |-> tommy_arrayblk_size(w0.disk)],
                           file, 1)
    IN  IF r.w.err # "" THEN r.w
        ELSE [r.w EXCEPT
                !.disk.first_free_block =
                    IF Len(w.disk.files[file].blockvec) # 0
                    THEN insert_first_free(r.block_pos) ELSE @,
                !.disk.filelist = tommy_insert_tail(@, file)]

\* mutant of scan_file_insert: the free position is set also when nothing
\* was allocated
scan_file_insert_always(w, file) ==
    LET w0 == NeedWrite(w)
        r == insert_blocks([w |-> w0, block_pos |-> w0.disk.first_free_block],
                           file, 1)
    IN  IF r.w.err # "" THEN r.w
        ELSE [r.w EXCEPT
                !.disk.first_free_block = insert_first_free(r.block_pos),
                !.disk.filelist = tommy_insert_tail(@, file)]

\* allocate the blocks of the file from the first free position and put the
\* file in the list of the files
scan_file_insert(w, file) ==
    LET w0 == NeedWrite(w)
        r == insert_blocks([w |-> w0, block_pos |-> w0.disk.first_free_block],
                           file, 1)
    IN  IF r.w.err # "" THEN r.w
        ELSE [r.w EXCEPT
                !.disk.first_free_block =
                    IF Len(w.disk.files[file].blockvec) # 0
                    THEN insert_first_free(r.block_pos) ELSE @,
                !.disk.filelist = tommy_insert_tail(@, file)]

-----------------------------------------------------------------------------
(* scan_link *)

\* link_alloc
link_alloc(sub, linkto, link_flag) ==
    [sub |-> sub, linkto |-> linkto, kind |-> link_flag, present |-> FALSE]

\* mutant of link_equal: no stored link is the observed one
link_equal_never(link, linkto, link_flag) == FALSE

\* is the stored link the observed one: same target and same kind
link_equal(link, linkto, link_flag) ==
    link.linkto = linkto /\ link.kind = link_flag

scan_link(w, sub, linkto, link_flag) ==
    LET d == w.disk
        link == tommy_hashdyn_search(d.linkset, link_name_compare(d), sub)
    IN  IF link # NoObj
        THEN IF d.links[link].present
             THEN Fatal(w, "link already present")
             ELSE LET w1 == [w EXCEPT !.disk.links[link].present = TRUE]
                  IN  IF link_equal(d.links[link], linkto, link_flag)
                      THEN Emit(Count(w1, "count_equal"), "equal", sub, <<>>)
                      ELSE LET w2 == Emit(Count(NeedWrite(w1), "count_change"),
                                          "update", sub, <<>>)
                           IN  [w2 EXCEPT !.disk.links[link].linkto = linkto,
                                          !.disk.links[link].kind = link_flag]
        ELSE LET w1 == Emit(Count(w, "count_insert"), "add", sub, <<>>)
                 new == d.nextid
             IN  [w1 EXCEPT
                    !.disk.nextid = @ + 1,
                    !.disk.links = @ @@ (new :>
                        [link_alloc(sub, linkto, link_flag) EXCEPT !.present = TRUE]),
                    !.scan.link_insert_list = tommy_insert_tail(@, new)]

\* scan_link_remove
scan_link_remove(w, link) ==
    [NeedWrite(w) EXCEPT !.disk.linkset = tommy_remove_existing(@, link),
                         !.disk.linklist = tommy_remove_existing(@, link),
                         !.disk.links = Drop(@, link)]

\* scan_link_insert
scan_link_insert(w, link) ==
    [NeedWrite(w) EXCEPT !.disk.linkset = tommy_insert_tail(@, link),
                         !.disk.linklist = tommy_insert_tail(@, link)]

-----------------------------------------------------------------------------
(* scan_emptydir *)

\* mutant of scan_emptydir: a directory of the catalog is not counted
scan_emptydir_nocount(w, sub) ==
    LET d == w.disk
        dir == tommy_hashdyn_search(d.dirset, dir_name_compare(d), sub)
    IN  IF dir # NoObj
        THEN IF d.dirs[dir].present
             THEN Fatal(w, "dir already present")
             ELSE Emit([w EXCEPT !.disk.dirs[dir].present = TRUE],
                       "equal", sub, <<>>)
        ELSE LET w1 == Emit(Count(w, "count_insert"), "add", sub, <<>>)
                 new == d.nextid
             IN  [w1 EXCEPT
                    !.disk.nextid = @ + 1,
                    !.disk.dirs = @ @@ (new :> [sub |-> sub, present |-> TRUE]),
                    !.scan.dir_insert_list = tommy_insert_tail(@, new)]

scan_emptydir(w, sub) ==
    LET d == w.disk
        dir == tommy_hashdyn_search(d.dirset, dir_name_compare(d), sub)
    IN  IF dir # NoObj
        THEN IF d.dirs[dir].present
             THEN Fatal(w, "dir already present")
             ELSE Emit(Count([w EXCEPT !.disk.dirs[dir].present = TRUE],
                             "count_equal"), "equal", sub, <<>>)
        ELSE LET w1 == Emit(Count(w, "count_insert"), "add", sub, <<>>)
                 new == d.nextid
             IN  [w1 EXCEPT
                    !.disk.nextid = @ + 1,
                    !.disk.dirs = @ @@ (new :> [sub |-> sub, present |-> TRUE]),
                    !.scan.dir_insert_list = tommy_insert_tail(@, new)]

\* scan_emptydir_remove
scan_emptydir_remove(w, dir) ==
    [NeedWrite(w) EXCEPT !.disk.dirset = tommy_remove_existing(@, dir),
                         !.disk.dirlist = tommy_remove_existing(@, dir),
                         !.disk.dirs = Drop(@, dir)]

\* mutant of scan_emptydir_insert: the state is not marked as changed
scan_emptydir_insert_quiet(w, dir) ==
    [w EXCEPT !.disk.dirset = tommy_insert_tail(@, dir),
              !.disk.dirlist = tommy_insert_tail(@, dir)]

\* scan_emptydir_insert
scan_emptydir_insert(w, dir) ==
    [NeedWrite(w) EXCEPT !.disk.dirset = tommy_insert_tail(@, dir),
                         !.disk.dirlist = tommy_insert_tail(@, dir)]

-----------------------------------------------------------------------------
(* scan_file *)

\* file_alloc: the blocks are allocated with no position, no state set and
\* a hash nobody wrote
file_alloc(sub, size, mtime_sec, mtime_nsec, inode, physical) ==
    [sub |-> sub, size |-> size, mtime_sec |-> mtime_sec,
     mtime_nsec |-> mtime_nsec, inode |-> inode, physical |-> physical,
     present |-> FALSE, without_inode |-> FALSE,
     blockvec |-> [i \in 1..file_blockmax(size) |->
                      [parity_pos |-> POS_INVALID, state |-> "NONE",
                       hash |-> HASH_UNINIT]]]

\* mutant of file_not_changed: stored nanoseconds of STAT_NSEC_INVALID are
\* compared like any other
file_not_changed_strict(file, st) ==
    /\ file.size = st.st_size
    /\ file.mtime_sec = st.st_mtime
    /\ file.mtime_nsec = st.st_nsec

\* check if the file is not changed: same size, same time, and the same
\* nanoseconds unless the stored ones are STAT_NSEC_INVALID
file_not_changed(file, st) ==
    /\ file.size = st.st_size
    /\ file.mtime_sec = st.st_mtime
    /\ (file.mtime_nsec = st.st_nsec \/ file.mtime_nsec = STAT_NSEC_INVALID)

\* update the nanoseconds of the stored time only if they are invalid
update_nsec(w, file, st) ==
    IF /\ w.disk.files[file].mtime_nsec = STAT_NSEC_INVALID
       /\ st.st_nsec # STAT_NSEC_INVALID
    THEN NeedWrite([w EXCEPT !.disk.files[file].mtime_nsec = st.st_nsec])
    ELSE w

\* mutant of scan_file_by_inode: the moved file is put in the set of the
\* paths once more, not taken out first
scan_file_by_inode_twice(w, file, sub, st) ==
    LET w1 == update_nsec([w EXCEPT !.disk.files[file].present = TRUE], file, st)
        old == w.disk.files[file].sub
    IN  IF old # sub
        THEN LET w2 == Emit(Count(w1, "count_move"), "move", old, sub)
             IN  NeedWrite([w2 EXCEPT
                    !.disk.pathset = tommy_insert_tail(@, file),
                    !.disk.files[file].sub = sub])
        ELSE Emit(Count(w1, "count_equal"), "equal", sub, <<>>)

\* mutant of scan_file_by_inode: a move is counted and the file keeps its
\* path
scan_file_by_inode_norename(w, file, sub, st) ==
    LET w1 == update_nsec([w EXCEPT !.disk.files[file].present = TRUE], file, st)
        old == w.disk.files[file].sub
    IN  IF old # sub
        THEN NeedWrite(Emit(Count(w1, "count_move"), "move", old, sub))
        ELSE Emit(Count(w1, "count_equal"), "equal", sub, <<>>)

\* mutant of scan_file_by_inode: the blocks of a moved file are marked as
\* changed
scan_file_by_inode_rewrite(w, file, sub, st) ==
    LET w1 == update_nsec([w EXCEPT !.disk.files[file].present = TRUE], file, st)
        old == w.disk.files[file].sub
    IN  IF old # sub
        THEN LET w2 == Emit(Count(w1, "count_move"), "move", old, sub)
             IN  NeedWrite([w2 EXCEPT
                    !.disk.pathset =
                        tommy_insert_tail(tommy_remove_existing(@, file), file),
                    !.disk.files[file].sub = sub,
                    !.disk.files[file].blockvec =
                        [k \in DOMAIN @ |-> [@[k] EXCEPT !.state = "CHG"]]])
        ELSE Emit(Count(w1, "count_equal"), "equal", sub, <<>>)

\* the file found by inode is the one seen: it is a move or it is equal
scan_file_by_inode(w, file, sub, st) ==
    LET w1 == update_nsec([w EXCEPT !.disk.files[file].present = TRUE], file, st)
        old == w.disk.files[file].sub
    IN  IF old # sub
        THEN LET w2 == Emit(Count(w1, "count_move"), "move", old, sub)
             IN  NeedWrite([w2 EXCEPT
                    !.disk.pathset =
                        tommy_insert_tail(tommy_remove_existing(@, file), file),
                    !.disk.files[file].sub = sub])
        ELSE Emit(Count(w1, "count_equal"), "equal", sub, <<>>)

\* mutant of scan_file_clear_inode: the file is not marked as missing inode
scan_file_clear_inode_unmarked(w, file) ==
    [w EXCEPT !.disk.inodeset = tommy_remove_existing(@, file),
              !.disk.files[file].inode = 0]

\* the file found by inode is another one: forget its inode
scan_file_clear_inode(w, file) ==
    [w EXCEPT !.disk.inodeset = tommy_remove_existing(@, file),
              !.disk.files[file].inode = 0,
              !.disk.files[file].without_inode = TRUE]

\* the file found by path has no inode: give it the one seen
scan_file_set_inode(w, file, st) ==
    [w EXCEPT !.disk.files[file].inode = st.st_ino,
              !.disk.inodeset = tommy_insert_tail(@, file),
              !.disk.files[file].without_inode = FALSE]

\* mutant of scan_file_by_path: a restore is counted and the file keeps its
\* inode
scan_file_by_path_stale(w, file, sub, st) ==
    LET w1 == update_nsec([w EXCEPT !.disk.files[file].present = TRUE], file, st)
    IN  IF ~w.disk.has_not_persistent_inodes
        THEN NeedWrite(Emit(Count(w1, "count_restore"), "restore", sub, <<>>))
        ELSE Emit(Count(w1, "count_equal"), "equal", sub, <<>>)

\* the file found by path is the one seen: it is a restore or it is equal
scan_file_by_path(w, file, sub, st) ==
    LET w1 == update_nsec([w EXCEPT !.disk.files[file].present = TRUE], file, st)
    IN  IF ~w.disk.has_not_persistent_inodes
        THEN LET w2 == Emit(Count(w1, "count_restore"), "restore", sub, <<>>)
             IN  NeedWrite([w2 EXCEPT
                    !.disk.inodeset =
                        tommy_insert_tail(tommy_remove_existing(@, file), file),
                    !.disk.files[file].inode = st.st_ino])
        ELSE Emit(Count(w1, "count_equal"), "equal", sub, <<>>)

\* mutant of scan_file_new: the blocks of the file are allocated at once,
\* the allocation is not delayed
scan_file_new_now(w, sub, st, physical) ==
    LET new == w.disk.nextid
        file == file_alloc(sub, st.st_size, st.st_mtime, st.st_nsec, st.st_ino,
                           physical)
    IN  scan_file_insert(
            [w EXCEPT !.disk.nextid = @ + 1,
                      !.disk.files = @ @@ (new :> [file EXCEPT !.present = TRUE]),
                      !.disk.inodeset = tommy_insert_tail(@, new),
                      !.disk.pathset = tommy_insert_tail(@, new)], new)

\* allocate the file seen, index it and queue it for the block allocation
scan_file_new(w, sub, st, physical) ==
    LET new == w.disk.nextid
        file == file_alloc(sub, st.st_size, st.st_mtime, st.st_nsec, st.st_ino,
                           physical)
    IN  [w EXCEPT !.disk.nextid = @ + 1,
                  !.disk.files = @ @@ (new :> [file EXCEPT !.present = TRUE]),
                  !.disk.inodeset = tommy_insert_tail(@, new),
                  !.disk.pathset = tommy_insert_tail(@, new),
                  !.scan.file_insert_list = tommy_insert_tail(@, new)]

\* mutant of scan_file_path: a file found with size zero is a change like
\* another, force_zero is not looked at
scan_file_path_nozero(w, sub, st, physical) ==
    LET d == w.disk
        file == tommy_hashdyn_search(d.pathset, file_path_compare(d), sub)
    IN  IF file = NoObj
        THEN scan_file_new(Emit(Count(w, "count_insert"), "add", sub, <<>>),
                           sub, st, physical)
        ELSE IF ~d.files[file].without_inode /\ d.files[file].inode = st.st_ino
        THEN Fatal(w, "inode unexpected matching")
        ELSE
        LET w1 == IF d.files[file].without_inode
                  THEN scan_file_set_inode(w, file, st) ELSE w
        IN  IF d.files[file].present
            THEN Fatal(w1, "path already present")
            ELSE IF file_not_changed(d.files[file], st)
            THEN scan_file_by_path(w1, file, sub, st)
            ELSE
            LET w2 == Emit(Count(w1, "count_change"), "update", sub, <<>>)
                w3 == scan_file_remove(w2, file)
            IN  IF w3.err # "" THEN w3
                ELSE scan_file_new(w3, sub, st, physical)

\* the search by path and what follows it
scan_file_path(w, sub, st, physical) ==
    LET d == w.disk
        file == tommy_hashdyn_search(d.pathset, file_path_compare(d), sub)
    IN  IF file = NoObj
        THEN scan_file_new(Emit(Count(w, "count_insert"), "add", sub, <<>>),
                           sub, st, physical)
        ELSE IF ~d.files[file].without_inode /\ d.files[file].inode = st.st_ino
        THEN Fatal(w, "inode unexpected matching")
        ELSE
        LET w1 == IF d.files[file].without_inode
                  THEN scan_file_set_inode(w, file, st) ELSE w
        IN  IF d.files[file].present
            THEN Fatal(w1, "path already present")
            ELSE IF file_not_changed(d.files[file], st)
            THEN scan_file_by_path(w1, file, sub, st)
            ELSE IF d.files[file].size # 0 /\ st.st_size = 0
                    /\ ~w.state.opt.force_zero
            THEN Fatal(w1, "unexpected zero size")
            ELSE
            LET w2 == Emit(Count(w1, "count_change"), "update", sub, <<>>)
                w3 == scan_file_remove(w2, file)
            IN  IF w3.err # "" THEN w3
                ELSE scan_file_new(w3, sub, st, physical)

\* mutant of scan_file: a file found by inode is not checked for being
\* present already
scan_file_nopresent(w, sub, st, physical) ==
    LET d == w.disk
        file == tommy_hashdyn_search(d.inodeset, file_inode_compare_to_arg(d),
                                     st.st_ino)
    IN  IF file = NoObj
        THEN scan_file_path(w, sub, st, physical)
        ELSE IF file_not_changed(d.files[file], st)
        THEN scan_file_by_inode(w, file, sub, st)
        ELSE IF d.files[file].present
        THEN Fatal(w, "inode already present but different")
        ELSE scan_file_path(scan_file_clear_inode(w, file), sub, st, physical)

\* mutant of scan_file: a file found by inode with another size or time is
\* counted as changed before the search by path
scan_file_recount(w, sub, st, physical) ==
    LET d == w.disk
        file == tommy_hashdyn_search(d.inodeset, file_inode_compare_to_arg(d),
                                     st.st_ino)
    IN  IF file = NoObj
        THEN scan_file_path(w, sub, st, physical)
        ELSE IF file_not_changed(d.files[file], st)
        THEN IF d.files[file].present
             THEN IF st.st_nlink > 1
                  THEN scan_link(w, sub, d.files[file].sub, "HARDLINK")
                  ELSE Fatal(w, "inode already present")
             ELSE scan_file_by_inode(w, file, sub, st)
        ELSE IF d.files[file].present
        THEN Fatal(w, "inode already present but different")
        ELSE scan_file_path(Count(scan_file_clear_inode(w, file), "count_change"),
                            sub, st, physical)

\* mutant of scan_file: a file found by inode with another size or time
\* keeps its inode when the search by path follows
scan_file_keep_inode(w, sub, st, physical) ==
    LET d == w.disk
        file == tommy_hashdyn_search(d.inodeset, file_inode_compare_to_arg(d),
                                     st.st_ino)
    IN  IF file = NoObj
        THEN scan_file_path(w, sub, st, physical)
        ELSE IF file_not_changed(d.files[file], st)
        THEN IF d.files[file].present
             THEN IF st.st_nlink > 1
                  THEN scan_link(w, sub, d.files[file].sub, "HARDLINK")
                  ELSE Fatal(w, "inode already present")
             ELSE scan_file_by_inode(w, file, sub, st)
        ELSE IF d.files[file].present
        THEN Fatal(w, "inode already present but different")
        ELSE scan_file_path(w, sub, st, physical)

\* reconcile a regular file seen: search it by inode, then by path
scan_file(w, sub, st, physical) ==
    LET d == w.disk
        file == tommy_hashdyn_search(d.inodeset, file_inode_compare_to_arg(d),
                                     st.st_ino)
    IN  IF file = NoObj
        THEN scan_file_path(w, sub, st, physical)
        ELSE IF file_not_changed(d.files[file], st)
        THEN IF d.files[file].present
             THEN IF st.st_nlink > 1
                  THEN scan_link(w, sub, d.files[file].sub, "HARDLINK")
                  ELSE Fatal(w, "inode already present")
             ELSE scan_file_by_inode(w, file, sub, st)
        ELSE IF d.files[file].present
        THEN Fatal(w, "inode already present but different")
        ELSE scan_file_path(scan_file_clear_inode(w, file), sub, st, physical)

-----------------------------------------------------------------------------
(* scan_dir *)

\* the names the configured filter excludes (filter_path, filter_dir)
ExcludedNames == {"x"}

filter_path(sub) == IF sub[Len(sub)] \in ExcludedNames THEN 1 ELSE 0

filter_dir(sub) == IF sub[Len(sub)] \in ExcludedNames THEN 1 ELSE 0

\* lstat of a directory entry
DSTAT(dd) ==
    [st_ino |-> dd.ino, st_size |-> dd.size, st_mtime |-> dd.mtime,
     st_nsec |-> dd.nsec, st_nlink |-> dd.nlink]

\* the key of the sort of the directory entries
dd_ino_compare(entries) ==
    [dd \in {entries[i] : i \in 1..Len(entries)} |-> dd.ino]

NoStat == [st_ino |-> 0, st_size |-> 0, st_mtime |-> 0, st_nsec |-> 0,
           st_nlink |-> 0]

Call(op, sub, st, linkto, physical) ==
    [op |-> op, sub |-> sub, st |-> st, linkto |-> linkto, physical |-> physical]

\* scan_dir: the calls of scan_file, scan_link and scan_emptydir a directory
\* leads to, in order, and whether at least one entry was processed
RECURSIVE scan_dir(_, _, _)

\* mutant of scan_dir_entry: a directory counts as processed only when
\* something in it was
scan_dir_entry_inner(dd, sub, ctx) ==
    LET sub_next == Append(sub, dd.name)
        none == [calls |-> <<>>, processed |-> FALSE]
    IN  CASE dd.type = "REG" ->
               IF filter_path(sub_next) = 0
               THEN [calls |-> <<Call("file", sub_next, DSTAT(dd), <<>>,
                                      IF ctx.force_order = "PHYSICAL"
                                      THEN dd.physical ELSE 0)>>,
                     processed |-> TRUE]
               ELSE none
          [] dd.type = "LNK" ->
               IF filter_path(sub_next) = 0
               THEN [calls |-> <<Call("link", sub_next, NoStat, dd.linkto, 0)>>,
                     processed |-> TRUE]
               ELSE none
          [] dd.type = "DIR" ->
               IF filter_dir(sub_next) = 0
               THEN IF dd.dev # DiskDevice THEN none
                    ELSE LET r == scan_dir(dd.children, sub_next, ctx)
                         IN  [calls |-> IF ~r.processed
                                        THEN r.calls \o <<Call("emptydir",
                                                 sub_next, NoStat, <<>>, 0)>>
                                        ELSE r.calls,
                              processed |-> r.processed]
               ELSE none
          [] OTHER -> none

\* the processing of one directory entry
scan_dir_entry(dd, sub, ctx) ==
    LET sub_next == Append(sub, dd.name)
        none == [calls |-> <<>>, processed |-> FALSE]
    IN  CASE dd.type = "REG" ->
               IF filter_path(sub_next) = 0
               THEN [calls |-> <<Call("file", sub_next, DSTAT(dd), <<>>,
                                      IF ctx.force_order = "PHYSICAL"
                                      THEN dd.physical ELSE 0)>>,
                     processed |-> TRUE]
               ELSE none
          [] dd.type = "LNK" ->
               IF filter_path(sub_next) = 0
               THEN [calls |-> <<Call("link", sub_next, NoStat, dd.linkto, 0)>>,
                     processed |-> TRUE]
               ELSE none
          [] dd.type = "DIR" ->
               IF filter_dir(sub_next) = 0
               THEN IF dd.dev # DiskDevice THEN none
                    ELSE LET r == scan_dir(dd.children, sub_next, ctx)
                         IN  [calls |-> IF ~r.processed
                                        THEN r.calls \o <<Call("emptydir",
                                                 sub_next, NoStat, <<>>, 0)>>
                                        ELSE r.calls,
                              processed |-> TRUE]
               ELSE none
          [] OTHER -> none

RECURSIVE scan_dir_list(_, _, _, _)
scan_dir_list(list, i, sub, ctx) ==
    IF i > Len(list) THEN [calls |-> <<>>, processed |-> FALSE]
    ELSE LET one == scan_dir_entry(list[i], sub, ctx)
             rest == scan_dir_list(list, i + 1, sub, ctx)
         IN  [calls |-> one.calls \o rest.calls,
              processed |-> one.processed \/ rest.processed]

scan_dir(entries, sub, ctx) ==
    scan_dir_list(IF ~ctx.has_not_persistent_inodes
                  THEN tommy_list_sort(entries, dd_ino_compare(entries)) ELSE entries,
                  1, sub, ctx)

-----------------------------------------------------------------------------
(* state_scan *)

World == [disk |-> disk, state |-> state, scan |-> scan, log |-> log,
          hist |-> hist, err |-> ""]

\* the variables take the world an operation left; a fatal error ends the run
Becomes(w, next) ==
    /\ disk' = w.disk
    /\ state' = w.state
    /\ scan' = w.scan
    /\ log' = IF w.err # "" THEN Append(w.log, Failure(w.err)) ELSE w.log
    /\ hist' = w.hist
    /\ pc' = IF w.err # "" THEN "fatal" ELSE next

scan_alloc ==
    [count_equal |-> 0, count_move |-> 0, count_restore |-> 0,
     count_change |-> 0, count_remove |-> 0, count_insert |-> 0,
     file_insert_list |-> <<>>, link_insert_list |-> <<>>,
     dir_insert_list |-> <<>>]

\* mutant of clear_inodes: the disk is masked and the stored inodes stay
clear_inodes_none(d) == [d EXCEPT !.has_not_persistent_inodes = TRUE]

\* the disk has no persistent inodes: mask it and forget the stored inodes
clear_inodes(d) ==
    [d EXCEPT !.has_not_persistent_inodes = TRUE,
              !.inodeset = SelectSeq(@, LAMBDA f :
                               \A i \in 1..Len(d.filelist) : d.filelist[i] # f),
              !.files = [f \in DOMAIN @ |->
                           IF \E i \in 1..Len(d.filelist) : d.filelist[i] = f
                           THEN [@[f] EXCEPT !.inode = 0, !.without_inode = TRUE]
                           ELSE @[f]]]

\* the start of the scan of the disk, up to the call of scan_dir
ScanDisk ==
    /\ pc = "start"
    /\ LET d == IF ~fs.has_persistent_inode THEN clear_inodes(disk) ELSE disk
       IN  /\ disk' = d
           /\ local' = [local EXCEPT
                  !.todo = scan_dir(fs.root, <<>>,
                      [has_not_persistent_inodes |-> d.has_not_persistent_inodes,
                       force_order |-> state.opt.force_order]).calls]
    /\ scan' = scan_alloc
    /\ pc' = "walk"
    /\ UNCHANGED <<state, log, hist, fs, output, run, load>>

\* scan_dir reaches a regular file
ScanFile ==
    /\ pc = "walk" /\ local.todo # <<>> /\ Head(local.todo).op = "file"
    /\ LET c == Head(local.todo)
       IN  Becomes(scan_file(World, c.sub, c.st, c.physical), "walk")
    /\ local' = [local EXCEPT !.todo = Tail(@)]
    /\ UNCHANGED <<fs, output, run, load>>

\* scan_dir reaches a symbolic link
ScanLink ==
    /\ pc = "walk" /\ local.todo # <<>> /\ Head(local.todo).op = "link"
    /\ LET c == Head(local.todo)
       IN  Becomes(scan_link(World, c.sub, c.linkto, "SYMLINK"), "walk")
    /\ local' = [local EXCEPT !.todo = Tail(@)]
    /\ UNCHANGED <<fs, output, run, load>>

\* scan_dir comes back from a directory in which nothing was processed
ScanEmptydir ==
    /\ pc = "walk" /\ local.todo # <<>> /\ Head(local.todo).op = "emptydir"
    /\ LET c == Head(local.todo)
       IN  Becomes(scan_emptydir(World, c.sub), "walk")
    /\ local' = [local EXCEPT !.todo = Tail(@)]
    /\ UNCHANGED <<fs, output, run, load>>

\* mutant of remove_files: the files that are not present stay
remove_files_keep(w, list, i) == w

\* check for removed files: the loop over the file list
RECURSIVE remove_files(_, _, _)
remove_files(w, list, i) ==
    IF w.err # "" \/ i > Len(list) THEN w
    ELSE remove_files(
             IF ~w.disk.files[list[i]].present
             THEN scan_file_remove(
                      Emit(Count(w, "count_remove"), "remove",
                           w.disk.files[list[i]].sub, <<>>), list[i])
             ELSE w, list, i + 1)

RemoveFiles ==
    /\ pc = "walk" /\ local.todo = <<>>
    /\ Becomes(remove_files(World, disk.filelist, 1), "remove_links")
    /\ UNCHANGED <<fs, output, local, run, load>>

\* mutant of remove_links: the links that are not present stay
remove_links_keep(w, list, i) == w

\* check for removed links
RECURSIVE remove_links(_, _, _)
remove_links(w, list, i) ==
    IF i > Len(list) THEN w
    ELSE remove_links(
             IF ~w.disk.links[list[i]].present
             THEN scan_link_remove(
                      Emit(Count(w, "count_remove"), "remove",
                           w.disk.links[list[i]].sub, <<>>), list[i])
             ELSE w, list, i + 1)

RemoveLinks ==
    /\ pc = "remove_links"
    /\ Becomes(remove_links(World, disk.linklist, 1), "remove_dirs")
    /\ UNCHANGED <<fs, output, local, run, load>>

\* check for removed dirs
RECURSIVE remove_dirs(_, _, _)
remove_dirs(w, list, i) ==
    IF i > Len(list) THEN w
    ELSE remove_dirs(
             IF ~w.disk.dirs[list[i]].present
             THEN scan_emptydir_remove(
                      Emit(Count(w, "count_remove"), "remove",
                           w.disk.dirs[list[i]].sub, <<>>), list[i])
             ELSE w, list, i + 1)

RemoveDirs ==
    /\ pc = "remove_dirs"
    /\ Becomes(remove_dirs(World, disk.dirlist, 1), "sort")
    /\ UNCHANGED <<fs, output, local, run, load>>

\* the order of the names, as strcmp gives it
NameOrder == <<"a", "b", "c", "d", "e", "x">>
NameRank(name) == CHOOSE i \in 1..Len(NameOrder) : NameOrder[i] = name
MaxDepth == 3
RECURSIVE Power(_, _)
Power(b, n) == IF n = 0 THEN 1 ELSE b * Power(b, n - 1)

\* the keys of file_physical_compare, file_inode_compare, file_alpha_compare
file_physical_compare(file) == file.physical
file_inode_compare(file) == file.inode
RECURSIVE file_alpha_compare_from(_, _)
file_alpha_compare_from(sub, i) ==
    IF i > MaxDepth THEN 0
    ELSE (IF i <= Len(sub) THEN NameRank(sub[i]) ELSE 0)
             * Power(Len(NameOrder) + 1, MaxDepth - i)
         + file_alpha_compare_from(sub, i + 1)
file_alpha_compare(file) == file_alpha_compare_from(file.sub, 1)

\* mutant of sort_files: the order PHYSICAL sorts by inode
sort_files_keys(d, list, force_order) ==
    CASE force_order \in {"PHYSICAL", "INODE"} ->
           tommy_list_sort(list,
               [f \in DOMAIN d.files |-> file_inode_compare(d.files[f])])
      [] force_order = "ALPHA" ->
           tommy_list_sort(list,
               [f \in DOMAIN d.files |-> file_alpha_compare(d.files[f])])
      [] OTHER -> list

\* sort the files before inserting them
sort_files(d, list, force_order) ==
    CASE force_order = "PHYSICAL" ->
           tommy_list_sort(list,
               [f \in DOMAIN d.files |-> file_physical_compare(d.files[f])])
      [] force_order = "INODE" ->
           tommy_list_sort(list,
               [f \in DOMAIN d.files |-> file_inode_compare(d.files[f])])
      [] force_order = "ALPHA" ->
           tommy_list_sort(list,
               [f \in DOMAIN d.files |-> file_alpha_compare(d.files[f])])
      [] OTHER -> list

FILEPHY_WITHOUT_OFFSET == -3

SortFiles ==
    /\ pc = "sort"
    /\ scan' = [scan EXCEPT !.file_insert_list =
                    sort_files(disk, @, state.opt.force_order)]
    /\ local' = [local EXCEPT !.node = 1, !.phy_count = 0, !.phy_dup = 0,
                              !.phy_last = -1]
    /\ pc' = "insert"
    /\ UNCHANGED <<disk, state, log, hist, fs, output, run, load>>

\* mutant of count_physical: the empty files are counted too
count_physical_all(l, file, force_order) ==
    IF force_order = "PHYSICAL"
    THEN [l EXCEPT !.phy_dup = IF /\ l.phy_count > 0
                                  /\ file.physical = l.phy_last
                                  /\ l.phy_last # FILEPHY_WITHOUT_OFFSET
                               THEN @ + 1 ELSE @,
                   !.phy_last = file.physical,
                   !.phy_count = @ + 1]
    ELSE l

\* count duplicate physical offsets
count_physical(l, file, force_order) ==
    IF force_order = "PHYSICAL" /\ file.size # 0
    THEN [l EXCEPT !.phy_dup = IF /\ l.phy_count > 0
                                  /\ file.physical = l.phy_last
                                  /\ l.phy_last # FILEPHY_WITHOUT_OFFSET
                               THEN @ + 1 ELSE @,
                   !.phy_last = file.physical,
                   !.phy_count = @ + 1]
    ELSE l

\* insert the next new file
InsertFile ==
    /\ pc = "insert" /\ local.node <= Len(scan.file_insert_list)
    /\ LET file == scan.file_insert_list[local.node]
       IN  /\ local' = [count_physical(local, disk.files[file],
                                       state.opt.force_order)
                           EXCEPT !.node = @ + 1]
           /\ Becomes(scan_file_insert(World, file), "insert")
    /\ UNCHANGED <<fs, output, run, load>>

\* all the new files are inserted: mark the disk without reliable physical
\* offsets if it has duplicates, and insert all the new links
RECURSIVE insert_links(_, _, _)
insert_links(w, list, i) ==
    IF i > Len(list) THEN w
    ELSE insert_links(scan_link_insert(w, list[i]), list, i + 1)

InsertLinks ==
    /\ pc = "insert" /\ local.node > Len(scan.file_insert_list)
    /\ LET w == IF state.opt.force_order = "PHYSICAL" /\ local.phy_dup > 0
                THEN [World EXCEPT !.disk.has_not_reliable_physical = TRUE]
                ELSE World
       IN  Becomes(insert_links(w, scan.link_insert_list, 1), "insert_dirs")
    /\ UNCHANGED <<fs, output, local, run, load>>

\* insert all the new dirs
RECURSIVE insert_dirs(_, _, _)
insert_dirs(w, list, i) ==
    IF i > Len(list) THEN w
    ELSE insert_dirs(scan_emptydir_insert(w, list[i]), list, i + 1)

InsertDirs ==
    /\ pc = "insert_dirs"
    /\ Becomes(insert_dirs(World, scan.dir_insert_list, 1), "check")
    /\ UNCHANGED <<fs, output, local, run, load>>

\* mutant of disk_emptied: what was found equal, moved or restored is not
\* looked at
disk_emptied_any(s) == s.count_remove # 0 \/ s.count_change # 0

\* all the files previously present in the disk are missing or rewritten
disk_emptied(s) ==
    /\ s.count_equal = 0 /\ s.count_move = 0 /\ s.count_restore = 0
    /\ (s.count_remove # 0 \/ s.count_change # 0)

\* fprintf(stdlog, "summary:<what>:<count>")
Summary(what, count) ==
    [ev |-> "summary", sub |-> <<what>>, to |-> <<>>, count |-> count]

\* fprintf(stdlog, "summary:exit:<equal or diff>")
SummaryExit(s) ==
    [ev |-> "summary", sub |-> <<"exit">>,
     to |-> IF /\ s.count_move = 0 /\ s.count_restore = 0 /\ s.count_change = 0
               /\ s.count_remove = 0 /\ s.count_insert = 0
            THEN <<"equal">> ELSE <<"diff">>]

\* the totals of the scan, written to stdlog for the gui when the command
\* is verbose or prints its output
summary(st, out, s, l) ==
    IF (st.opt.verbose \/ out) /\ st.opt.gui
    THEN l \o <<Summary("equal", s.count_equal), Summary("moved", s.count_move),
                Summary("restored", s.count_restore),
                Summary("changed", s.count_change),
                Summary("removed", s.count_remove),
                Summary("added", s.count_insert), SummaryExit(s)>>
    ELSE l

\* the checks that follow the scan of the disks, and the summary
CheckDisks ==
    /\ pc = "check"
    /\ IF ~state.opt.force_empty /\ disk_emptied(scan)
       THEN pc' = "fatal" /\ log' = Append(log, Failure("disk emptied"))
       ELSE pc' = "done" /\ log' = summary(state, output, scan, log)
    /\ UNCHANGED <<disk, state, scan, hist, fs, output, local, run, load>>

-----------------------------------------------------------------------------
(* The catalogs a scan starts from *)

MaxCatalog == 2
MaxLive == 2
MaxInode == 3
MaxScans == 2

disk_alloc ==
    [files |-> <<>>, filelist |-> <<>>, inodeset |-> <<>>, pathset |-> <<>>,
     links |-> <<>>, linklist |-> <<>>, linkset |-> <<>>,
     dirs |-> <<>>, dirlist |-> <<>>, dirset |-> <<>>,
     blockarr |-> <<>>, deleted |-> <<>>, deletedlist |-> <<>>,
     first_free_block |-> 0,
     has_not_persistent_inodes |-> FALSE, has_not_reliable_physical |-> FALSE,
     nextid |-> 1]

\* the state of the block a catalog stores at a position
StoredState(profile, pos) ==
    CASE profile = "BLK" -> "BLK"
      [] profile = "MIX" -> <<"CHG", "NEW", "BLK">>[(pos % 3) + 1]
      [] OTHER -> <<"BLK", "INV">>[(pos % 2) + 1]

StoredHash(inode, k) == 10 * inode + k

\* a catalogued file: its blocks take the next positions of the block array
LoadFile(d, item, inode, profile) ==
    LET id == d.nextid
        base == Len(d.blockarr)
        n == file_blockmax(item.size)
    IN  [d EXCEPT
           !.nextid = @ + 1,
           !.files = @ @@ (id :>
               [sub |-> item.sub, size |-> item.size, mtime_sec |-> item.mtime,
                mtime_nsec |-> item.nsec, inode |-> inode, physical |-> 0,
                present |-> FALSE, without_inode |-> FALSE,
                blockvec |-> [k \in 1..n |->
                    [parity_pos |-> base + k - 1,
                     state |-> StoredState(profile, base + k - 1),
                     hash |-> StoredHash(inode, k)]]]),
           !.filelist = Append(@, id),
           !.inodeset = Append(@, id),
           !.pathset = Append(@, id),
           !.blockarr = @ \o [k \in 1..n |->
                                 [kind |-> "file", id |-> id, idx |-> k]]]

LoadLink(d, item) ==
    LET id == d.nextid
    IN  [d EXCEPT !.nextid = @ + 1,
                  !.links = @ @@ (id :> link_alloc(item.sub, item.linkto, item.lkind)),
                  !.linklist = Append(@, id),
                  !.linkset = Append(@, id)]

LoadDir(d, item) ==
    LET id == d.nextid
    IN  [d EXCEPT !.nextid = @ + 1,
                  !.dirs = @ @@ (id :> [sub |-> item.sub, present |-> FALSE]),
                  !.dirlist = Append(@, id),
                  !.dirset = Append(@, id)]

\* a position the catalog stores with no file on it
LoadLead(d, lead) ==
    CASE lead = "deleted" ->
           [d EXCEPT !.nextid = @ + 1,
                     !.deleted = @ @@ (d.nextid :>
                         [parity_pos |-> Len(d.blockarr), state |-> "DELETED",
                          hash |-> 99]),
                     !.deletedlist = Append(@, d.nextid),
                     !.blockarr = Append(@, [kind |-> "deleted", id |-> d.nextid,
                                             idx |-> 0])]
      [] lead = "empty" -> [d EXCEPT !.blockarr = Append(@, BLOCK_EMPTY)]
      [] lead = "empties" ->
           [d EXCEPT !.nextid = @ + 1,
                     !.deleted = @ @@ (d.nextid :>
                         [parity_pos |-> Len(d.blockarr), state |-> "DELETED",
                          hash |-> 99]),
                     !.deletedlist = Append(@, d.nextid),
                     !.blockarr = @ \o <<[kind |-> "deleted", id |-> d.nextid,
                                          idx |-> 0],
                                        BLOCK_EMPTY, BLOCK_EMPTY>>]
      [] OTHER -> d

RECURSIVE LoadItems(_, _, _, _)
LoadItems(d, items, i, profile) ==
    IF i > Len(items) THEN d
    ELSE LoadItems(
             CASE items[i].kind = "file" -> LoadFile(d, items[i], i, profile)
               [] items[i].kind = "link" -> LoadLink(d, items[i])
               [] OTHER -> LoadDir(d, items[i]),
             items, i + 1, profile)

\* the catalog: cat = [items, profile, lead]; the first free position of a
\* loaded catalog is 0
LoadCatalog(cat) ==
    LoadItems(LoadLead(disk_alloc, cat.lead), cat.items, 1, cat.profile)

Item(kind, sub, size, mtime, nsec, linkto, lkind) ==
    [kind |-> kind, sub |-> sub, size |-> size, mtime |-> mtime, nsec |-> nsec,
     linkto |-> linkto, lkind |-> lkind]

\* size, time in seconds, nanoseconds
Stats == {<<1, 1, 5>>, <<3, 1, 5>>}

\* the same as a catalog stores them, the larger file written by a version
\* that stored no nanoseconds
StoredStats == {<<1, 1, 5>>, <<3, 1, STAT_NSEC_INVALID>>}

FileItems(subs, stats) ==
    {Item("file", sub, s[1], s[2], s[3], <<>>, "") : sub \in subs, s \in stats}

LinkItems(subs) ==
    {Item("link", sub, 0, 0, 0, <<"a">>, k) : sub \in subs,
                                              k \in {"SYMLINK", "HARDLINK"}}

DirItems(subs) == {Item("dir", sub, 0, 0, 0, <<>>, "") : sub \in subs}

\* the sequences of at most n elements of E that differ in what key gives
SeqsUpTo(E, n, key(_)) ==
    LET upto[k \in 0..n] ==
            IF k = 0 THEN {<<>>}
            ELSE upto[k - 1] \cup
                 {Append(p[1], p[2]) : p \in
                     {q \in upto[k - 1] \X E :
                         \A i \in 1..Len(q[1]) : key(q[1][i]) # key(q[2])}}
    IN  upto[n]

-----------------------------------------------------------------------------
(* The filesystems a disk can hold *)

Entry(name, type, ino, s, linkto, dev, children) ==
    [name |-> name, type |-> type, ino |-> ino, size |-> s[1], mtime |-> s[2],
     nsec |-> s[3], nlink |-> 1, linkto |-> linkto, dev |-> dev,
     physical |-> 0, children |-> children]

NoStats == <<0, 0, 0>>

RegEntries(names, inodes, stats) ==
    {Entry(n, "REG", i, s, <<>>, DiskDevice, <<>>) :
        n \in names, i \in inodes, s \in stats}

LnkEntries(names) ==
    {Entry(n, "LNK", 9, NoStats, <<"a">>, DiskDevice, <<>>) : n \in names}

DirEntries(name, childsets) ==
    {Entry(name, "DIR", 8, NoStats, <<>>, DiskDevice, c) : c \in childsets}

\* every regular file of the tree reports the given number of links
RECURSIVE WithNlink(_, _)
WithNlink(entries, n) ==
    [i \in 1..Len(entries) |->
        [entries[i] EXCEPT !.nlink = IF entries[i].type = "REG" THEN n ELSE 1,
                           !.children = WithNlink(@, n)]]

\* two regular files of the directory have the same inode
SharesInode(entries) ==
    \E i, j \in 1..Len(entries) :
        /\ i < j /\ entries[i].type = "REG" /\ entries[j].type = "REG"
        /\ entries[i].ino = entries[j].ino

\* the names of one inode are names of one file: one size, one time
OneStatPerInode(entries) ==
    \A i, j \in 1..Len(entries) :
        entries[i].type = "REG" /\ entries[j].type = "REG"
        /\ entries[i].ino = entries[j].ino =>
            /\ entries[i].size = entries[j].size
            /\ entries[i].mtime = entries[j].mtime
            /\ entries[i].nsec = entries[j].nsec

\* readdir gives the entries in an order the sort by inode keeps
InodeOrdered(entries) ==
    tommy_list_sort(entries, dd_ino_compare(entries)) = entries

\* the filesystems over the given root directories: a disk with persistent
\* inodes lists a directory in inode order, and files report two links only
\* where two of them have the same inode
FileSystems(roots) ==
    {[root |-> WithNlink(r, n), has_persistent_inode |-> p] :
        <<r, p, n>> \in
            {t \in roots \X BOOLEAN \X {1, 2} :
                /\ OneStatPerInode(t[1])
                /\ t[2] => InodeOrdered(t[1])
                /\ t[3] = 2 => SharesInode(t[1])}}

-----------------------------------------------------------------------------
(* The specification *)

\* the options: the scans are run with the log for the gui, which records
\* what every entry is reconciled as, and are not verbose
state_alloc(clear, force_zero, force_empty, force_order) ==
    [need_write |-> FALSE, clear_undeterminate_hash |-> clear,
     opt |-> [force_zero |-> force_zero, force_empty |-> force_empty,
              force_order |-> force_order, gui |-> TRUE, verbose |-> FALSE]]

\* the same options with the log for the gui and the verbosity as given
state_alloc_log(st, gui, verbose) ==
    [st EXCEPT !.opt.gui = gui, !.opt.verbose = verbose]

local_alloc == [todo |-> <<>>, node |-> 1, phy_count |-> 0, phy_dup |-> 0,
                phy_last |-> -1]

InitWith(cats, fss, states, outputs) ==
    /\ \E cat \in cats : /\ disk = LoadCatalog(cat)
                         /\ load = [disk |-> LoadCatalog(cat), past |-> <<>>]
    /\ fs \in fss
    /\ state \in states
    /\ output \in outputs
    /\ scan = scan_alloc
    /\ log = <<>>
    /\ hist = <<>>
    /\ pc = "start"
    /\ local = local_alloc
    /\ run = 1

\* the catalogs and the filesystems of the reconciliation: files, links and
\* empty dirs under the names a, b and d
Catalogs ==
    {[items |-> s, profile |-> "BLK", lead |-> "none"] :
        s \in SeqsUpTo(FileItems({<<"a">>, <<"b">>}, StoredStats)
                         \cup LinkItems({<<"a">>, <<"b">>})
                         \cup DirItems({<<"d">>}),
                       MaxCatalog, LAMBDA it : it.sub)}

\* the same as lstat reports them, the larger file also on a platform
\* whose lstat gives no nanoseconds
LiveStats == Stats \cup {<<3, 1, STAT_NSEC_INVALID>>}

Roots ==
    SeqsUpTo(RegEntries({"a", "b"}, 1..MaxInode, LiveStats)
               \cup LnkEntries({"a", "b"})
               \cup DirEntries("d", {<<>>,
                      <<Entry("x", "REG", 7, <<1, 1, 5>>, <<>>, DiskDevice, <<>>)>>,
                      <<Entry("e", "REG", 6, <<1, 1, 5>>, <<>>, DiskDevice, <<>>)>>})
               \cup RegEntries({"x"}, {7}, {<<1, 1, 5>>}),
             MaxLive, LAMBDA e : e.name)

Init ==
    InitWith(Catalogs, FileSystems(Roots),
             {state_alloc(FALSE, FALSE, fe, "DIR") : fe \in BOOLEAN}, BOOLEAN)

\* the catalogs and the filesystems of the block allocation: files of zero
\* to two blocks, stored blocks in every state, a position without a file
BlockCatalogs ==
    {[items |-> s, profile |-> p, lead |-> l] :
        s \in SeqsUpTo(FileItems({<<"a">>, <<"b">>}, Stats),
                       MaxCatalog, LAMBDA it : it.sub),
        p \in {"BLK", "MIX", "INV"},
        l \in {"none", "deleted", "empty", "empties"}}

BlockStats == Stats \cup {<<0, 1, 5>>, <<4, 1, 5>>}

BlockRoots ==
    SeqsUpTo(RegEntries({"a", "b"}, 1..MaxInode, BlockStats),
             MaxLive, LAMBDA e : e.name)
    \cup {<<Entry("d", "DIR", 8, NoStats, <<>>, DiskDevice, <<>>),
            Entry("a", "LNK", 9, NoStats, <<"b">>, DiskDevice, <<>>)>>}

InitBlocks ==
    InitWith(BlockCatalogs,
             {f \in FileSystems(BlockRoots) : f.has_persistent_inode},
             {state_alloc(c, fz, TRUE, "DIR") : c \in BOOLEAN, fz \in BOOLEAN},
             {FALSE})

\* the caller runs state_scan again on the catalog the last run left, with
\* the presence flags cleared and nothing to write
ClearPresent(d) ==
    [d EXCEPT !.files = [f \in DOMAIN @ |-> [@[f] EXCEPT !.present = FALSE]],
              !.links = [l \in DOMAIN @ |-> [@[l] EXCEPT !.present = FALSE]],
              !.dirs = [x \in DOMAIN @ |-> [@[x] EXCEPT !.present = FALSE]]]

Rescan ==
    /\ pc = "done" /\ run < MaxScans
    /\ disk' = ClearPresent(disk)
    /\ state' = [state EXCEPT !.need_write = FALSE]
    /\ load' = [disk |-> ClearPresent(disk),
                past |-> Append(load.past,
                    [disk |-> load.disk, scan |-> scan, log |-> log,
                     need_write |-> state.need_write])]
    /\ log' = <<>>
    /\ hist' = <<>>
    /\ local' = local_alloc
    /\ run' = run + 1
    /\ pc' = "start"
    /\ UNCHANGED <<scan, fs, output>>

Next ==
    \/ ScanDisk
    \/ ScanFile
    \/ ScanLink
    \/ ScanEmptydir
    \/ RemoveFiles
    \/ RemoveLinks
    \/ RemoveDirs
    \/ SortFiles
    \/ InsertFile
    \/ InsertLinks
    \/ InsertDirs
    \/ CheckDisks
    \/ Rescan

Spec == Init /\ [][Next]_vars

SpecBlocks == InitBlocks /\ [][Next]_vars

\* the catalogs and the filesystems of the order of the inserts: up to three
\* new files of no block or two, with physical offsets that are distinct,
\* equal or not given, read in inode order when the inodes are persistent
\* and in any directory order when they are not, under every order of the
\* options
MaxOrderLive == 3

Orders == {"PHYSICAL", "INODE", "ALPHA", "DIR"}

OrderInode(name) == CASE name = "a" -> 2 [] name = "b" -> 3 [] OTHER -> 1

OrderOffsets == {4, 6, FILEPHY_WITHOUT_OFFSET}

OrderStats == {<<0, 1, 5>>, <<3, 1, 5>>}

OrderEntries ==
    {[Entry(n, "REG", OrderInode(n), s, <<>>, DiskDevice, <<>>)
         EXCEPT !.physical = p] :
        n \in {"a", "b", "c"}, s \in OrderStats, p \in OrderOffsets}

OrderRoots ==
    SeqsUpTo(OrderEntries, MaxOrderLive, LAMBDA e : e.name)
    \cup {<<Entry("d", "DIR", 8, NoStats, <<>>, DiskDevice, <<>>),
            Entry("a", "LNK", 9, NoStats, <<"b">>, DiskDevice, <<>>)>>}

OrderCatalogs ==
    {[items |-> s, profile |-> "BLK", lead |-> l] :
        s \in {<<>>, <<Item("file", <<"b">>, 1, 1, 5, <<>>, "")>>},
        l \in {"none", "empties"}}

InitOrder ==
    InitWith(OrderCatalogs, FileSystems(OrderRoots),
             {state_alloc(FALSE, FALSE, TRUE, o) : o \in Orders}, {FALSE})

SpecOrder == InitOrder /\ [][Next]_vars

\* the catalogs and the filesystems of the empty directories: a directory d
\* of up to two entries, which are regular files, excluded files, special
\* files, symbolic links, and directories: a subdirectory e that is empty or
\* holds a file or an excluded file, a mount point of another device, an
\* excluded directory
MaxDirEntries == 2

InnerEntries ==
    {<<>>,
     <<Entry("a", "REG", 3, <<1, 1, 5>>, <<>>, DiskDevice, <<>>)>>,
     <<Entry("x", "REG", 7, <<1, 1, 5>>, <<>>, DiskDevice, <<>>)>>}

ChildEntries ==
    {Entry("a", "REG", 2, <<1, 1, 5>>, <<>>, DiskDevice, <<>>),
     Entry("x", "REG", 7, <<1, 1, 5>>, <<>>, DiskDevice, <<>>),
     Entry("c", "FIFO", 4, NoStats, <<>>, DiskDevice, <<>>),
     Entry("b", "LNK", 9, NoStats, <<"a">>, DiskDevice, <<>>),
     Entry("e", "DIR", 5, NoStats, <<>>, DiskDevice + 1,
           <<Entry("a", "REG", 3, <<1, 1, 5>>, <<>>, DiskDevice + 1, <<>>)>>),
     Entry("x", "DIR", 6, NoStats, <<>>, DiskDevice,
           <<Entry("a", "REG", 3, <<1, 1, 5>>, <<>>, DiskDevice, <<>>)>>)}
    \cup {Entry("e", "DIR", 5, NoStats, <<>>, DiskDevice, c) : c \in InnerEntries}

DirRoots ==
    SeqsUpTo(DirEntries("d", SeqsUpTo(ChildEntries, MaxDirEntries,
                                      LAMBDA e : e.name))
               \cup RegEntries({"b"}, {1}, {<<1, 1, 5>>})
               \cup {Entry("c", "FIFO", 4, NoStats, <<>>, DiskDevice, <<>>)},
             MaxDirEntries, LAMBDA e : e.name)

DirCatalogs ==
    {[items |-> s, profile |-> "BLK", lead |-> "none"] :
        s \in SeqsUpTo(DirItems({<<"d">>, <<"d", "e">>}), MaxDirEntries,
                       LAMBDA it : it.sub)}

InitDirs ==
    InitWith(DirCatalogs, FileSystems(DirRoots),
             {state_alloc_log(state_alloc(FALSE, FALSE, TRUE, "DIR"), g, v) :
                 g \in BOOLEAN, v \in BOOLEAN}, BOOLEAN)

SpecDirs == InitDirs /\ [][Next]_vars

-----------------------------------------------------------------------------
(* What the claims speak of *)

\* state_scan returned
Completed == pc = "done"

\* the positions of the block array
Slots == 0..(Len(disk.blockarr) - 1)

\* the blocks of the files of the catalog, as <<file, index>>
FileBlocks(d) ==
    UNION {{<<f, k>> : k \in 1..Len(d.files[f].blockvec)} : f \in DOMAIN d.files}

\* the files the current run allocated
NewFiles == DOMAIN disk.files \ DOMAIN load.disk.files

\* the calls scan_dir makes on the filesystem in the current run
Calls ==
    scan_dir(fs.root, <<>>,
             [has_not_persistent_inodes |->
                  disk.has_not_persistent_inodes \/ ~fs.has_persistent_inode,
              force_order |-> state.opt.force_order]).calls

\* the records of the log of the given kind
Events(l, ev) == {i \in 1..Len(l) : l[i].ev = ev}

-----------------------------------------------------------------------------
(* C1 *)

FileCell(f, k) == [kind |-> "file", id |-> f, idx |-> k]

\* C1: after state_scan the cell of the block array at the position of every
\* block of every surviving file is a reference to exactly that block, and
\* every reference to a block of a file is at the position the block stores
C1_BlockMapAgrees ==
    Completed =>
        /\ \A fb \in FileBlocks(disk) :
              LET pos == disk.files[fb[1]].blockvec[fb[2]].parity_pos
              IN  /\ pos \in Slots
                  /\ disk.blockarr[pos + 1] = FileCell(fb[1], fb[2])
        /\ \A p \in Slots :
              LET cell == disk.blockarr[p + 1]
              IN  cell.kind = "file" =>
                      /\ <<cell.id, cell.idx>> \in FileBlocks(disk)
                      /\ disk.files[cell.id].blockvec[cell.idx].parity_pos = p

\* a scan that deleted blocks, kept a catalogued file with blocks and gave
\* blocks to a new file
C1_Witness ==
    /\ Completed
    /\ hist # <<>>
    /\ \E f \in NewFiles : Len(disk.files[f].blockvec) > 0
    /\ \E f \in DOMAIN disk.files \cap DOMAIN load.disk.files :
           Len(disk.files[f].blockvec) > 0

-----------------------------------------------------------------------------
(* C2 *)

\* C2: after state_scan no two blocks of the surviving files of the disk
\* have the same position
C2_NoDuplicatePosition ==
    Completed =>
        \A fb, gb \in FileBlocks(disk) :
            fb # gb =>
                disk.files[fb[1]].blockvec[fb[2]].parity_pos
                    # disk.files[gb[1]].blockvec[gb[2]].parity_pos

\* a scan that left an old file of two blocks and a new file with blocks
C2_Witness ==
    /\ Completed
    /\ \E f \in NewFiles : Len(disk.files[f].blockvec) > 0
    /\ \E f \in DOMAIN disk.files \cap DOMAIN load.disk.files :
           Len(disk.files[f].blockvec) = 2

-----------------------------------------------------------------------------
(* C3 *)

\* the step is a call of scan_file_insert that returned
InsertStep == pc = "insert" /\ pc' = "insert" /\ local'.node = local.node + 1

\* the cell of the block array at a position before the step; a position
\* past the end is one the step grew, and a grown cell is empty
CellBefore(pos) ==
    IF pos < Len(disk.blockarr) THEN disk.blockarr[pos + 1] ELSE BLOCK_EMPTY

\* every block the inserted file got: NEW over an empty cell, CHG over a
\* deleted block with the hash carried(deleted block before the step)
InsertedBlocks(carried(_)) ==
    LET file == scan.file_insert_list[local.node]
    IN  \A k \in 1..Len(disk'.files[file].blockvec) :
            LET block == disk'.files[file].blockvec[k]
                cell == CellBefore(block.parity_pos)
            IN  /\ cell.kind # "file"
                /\ cell = BLOCK_EMPTY => block.state = "NEW"
                /\ cell.kind = "deleted" =>
                       /\ block.state = "CHG"
                       /\ block.hash = carried(disk.deleted[cell.id])

\* the catalog held one file, of two blocks at 0 and 1, BLK and BLK, and the
\* filesystem holds that path alone with another size of two blocks
S4_Case ==
    /\ DOMAIN load.disk.files = {1}
    /\ Len(load.disk.blockarr) = 2
    /\ \A k \in 1..2 :
           /\ load.disk.blockarr[k] = [kind |-> "file", id |-> 1, idx |-> k]
           /\ load.disk.files[1].blockvec[k].state = "BLK"
    /\ Len(fs.root) = 1
    /\ fs.root[1].type = "REG"
    /\ <<fs.root[1].name>> = load.disk.files[1].sub
    /\ fs.root[1].size # load.disk.files[1].size
    /\ file_blockmax(fs.root[1].size) = 2

\* the replacement file is at 0 and 1, CHG and CHG, with the given hashes
S4_Result(hashes) ==
    /\ Cardinality(Events(log, "update")) = 1
    /\ \E f \in NewFiles :
           /\ DOMAIN disk.files = {f}
           /\ disk.files[f].sub = load.disk.files[1].sub
           /\ \A k \in 1..2 :
                  /\ disk.files[f].blockvec[k].parity_pos = k - 1
                  /\ disk.files[f].blockvec[k].state = "CHG"
                  /\ disk.files[f].blockvec[k].hash = hashes[k]
                  /\ disk.blockarr[k] = [kind |-> "file", id |-> f, idx |-> k]

\* C3 as the spec states it: a new block over a deleted block is CHG with
\* the hash the deleted block held before the insert, whatever the option,
\* and the replacement of the two-block file has the hashes H1, H2
C3_Original ==
    /\ [][InsertStep => InsertedBlocks(LAMBDA deleted : deleted.hash)]_vars
    /\ [](Completed /\ S4_Case =>
              S4_Result([k \in 1..2 |-> load.disk.files[1].blockvec[k].hash]))

\* C3: when scan_file_insert claims a position for a new block, the block is
\* NEW if the cell was empty; if the cell was a deleted block the block is
\* CHG and its hash is the hash of the deleted block when
\* clear_undeterminate_hash is set and all zero when it is not. The
\* replacement of the two-block BLK, BLK file at 0 and 1 with hashes H1, H2
\* is at 0 and 1, CHG and CHG, with hashes H1, H2 when the option is set and
\* zero hashes when it is not
C3_InsertOverCell ==
    /\ [][InsertStep =>
            InsertedBlocks(LAMBDA deleted :
                IF state.clear_undeterminate_hash THEN deleted.hash
                ELSE HASH_ZERO)]_vars
    /\ [](Completed /\ S4_Case =>
              S4_Result([k \in 1..2 |->
                  IF state.clear_undeterminate_hash
                  THEN load.disk.files[1].blockvec[k].hash ELSE HASH_ZERO]))

\* the scan of the two-block file whose size changed is done, with the
\* option not set, and the new blocks are over deleted blocks
C3_Witness ==
    /\ Completed
    /\ S4_Case
    /\ ~state.clear_undeterminate_hash
    /\ Len(hist) = 2
    /\ \E f \in NewFiles : Len(disk.files[f].blockvec) = 2

-----------------------------------------------------------------------------
(* C4 *)

\* the deleted blocks the run made from blocks in the given states
Freed(states) == {i \in 1..Len(hist) : hist[i].state \in states}

\* the deleted block is still the one at its position in the block array
InArray(h) ==
    disk.blockarr[h.pos + 1] = [kind |-> "deleted", id |-> h.del, idx |-> 0]

\* C4 as the spec states it: the deleted block made from a BLK block has the
\* hash of that block for the rest of the scan, later inserts included
C4_Original ==
    \A i \in Freed({"BLK"}) : disk.deleted[hist[i].del].hash = hist[i].hash

\* C4: the deleted block scan_file_remove makes from a BLK block has the
\* hash the block held when it was deleted for as long as it stays in the
\* block array, and for the rest of the scan when
\* clear_undeterminate_hash is set; when the option is not set, the insert
\* that takes its position zeroes the hash
C4_DeletedKeepsHash ==
    \A i \in Freed({"BLK"}) :
        /\ state.clear_undeterminate_hash \/ InArray(hist[i]) =>
               disk.deleted[hist[i].del].hash = hist[i].hash
        /\ ~state.clear_undeterminate_hash /\ ~InArray(hist[i]) =>
               disk.deleted[hist[i].del].hash = HASH_ZERO

\* after the inserts, a deleted block made from a BLK block is still in the
\* array, and another one lost its position to a new file
C4_Witness ==
    /\ Completed
    /\ \E i, j \in Freed({"BLK"}) :
           /\ InArray(hist[i]) /\ hist[i].hash # HASH_ZERO
           /\ ~InArray(hist[j])

-----------------------------------------------------------------------------
(* C5 *)

\* the block has a state scan_file_remove has no case for
BadState(block) == block.state \notin {"BLK", "CHG", "NEW"}

\* the phases of state_scan after the loop that removes the files
AfterRemoval ==
    pc \in {"remove_links", "remove_dirs", "sort", "insert", "insert_dirs",
           "check", "done"}

\* C5: the deleted block scan_file_remove makes from a CHG or NEW block has
\* an all zero hash when clear_undeterminate_hash is not set and the hash of
\* the block when it is; no block in another state is ever made a deleted
\* block: a file with such a block is never removed from the catalog, and
\* the scan that finds it missing, or changed, ends in the fatal error
C5_UndeterminateHash ==
    /\ \A i \in Freed({"CHG", "NEW"}) :
           disk.deleted[hist[i].del].hash =
               IF state.clear_undeterminate_hash THEN hist[i].hash
               ELSE HASH_ZERO
    /\ \A i \in 1..Len(hist) : hist[i].state \in {"BLK", "CHG", "NEW"}
    /\ \A f \in DOMAIN load.disk.files :
           (\E k \in DOMAIN load.disk.files[f].blockvec :
                BadState(load.disk.files[f].blockvec[k])) =>
               /\ f \in DOMAIN disk.files
               /\ AfterRemoval => disk.files[f].present

\* a scan that is done, with the option not set, after it made a deleted
\* block with a hash from a CHG or NEW block
C5_Witness ==
    /\ Completed
    /\ ~state.clear_undeterminate_hash
    /\ \E i \in Freed({"CHG", "NEW"}) : hist[i].hash # HASH_ZERO

-----------------------------------------------------------------------------
(* C6 *)

\* the positions of the blocks of the new files
NewPositions ==
    {disk.files[fb[1]].blockvec[fb[2]].parity_pos :
        fb \in {x \in FileBlocks(disk) : x[1] \in NewFiles}}

\* the positions scan_file_remove freed in the run
FreedPositions == {hist[i].pos : i \in 1..Len(hist)}

\* the positions of the block array with no block of a file
FreePositions == {p \in Slots : disk.blockarr[p + 1].kind # "file"}

\* the catalog held one file, of two blocks at 0 and 1, BLK and BLK, and the
\* filesystem holds one file alone, of one block, at another path
S5_Case ==
    /\ DOMAIN load.disk.files = {1}
    /\ Len(load.disk.blockarr) = 2
    /\ \A k \in 1..2 :
           /\ load.disk.blockarr[k] = [kind |-> "file", id |-> 1, idx |-> k]
           /\ load.disk.files[1].blockvec[k].state = "BLK"
    /\ Len(fs.root) = 1
    /\ fs.root[1].type = "REG"
    /\ <<fs.root[1].name>> # load.disk.files[1].sub
    /\ file_blockmax(fs.root[1].size) = 1

\* the new file is at 0, CHG; the position 1 holds a deleted block with the
\* second hash of the old file; the first free position is 1
S5_Result ==
    /\ Cardinality(Events(log, "remove")) = 1
    /\ Cardinality(Events(log, "add")) = 1
    /\ \E f \in NewFiles :
           /\ DOMAIN disk.files = {f}
           /\ disk.files[f].blockvec[1].parity_pos = 0
           /\ disk.files[f].blockvec[1].state = "CHG"
           /\ disk.blockarr[1] = [kind |-> "file", id |-> f, idx |-> 1]
    /\ disk.blockarr[2].kind = "deleted"
    /\ disk.deleted[disk.blockarr[2].id].hash = load.disk.files[1].blockvec[2].hash
    /\ disk.first_free_block = 1

\* one catalogued file with blocks was found missing, nothing else changed,
\* and one new file with blocks appeared
C6_Case ==
    /\ Completed
    /\ Cardinality(Events(log, "remove")) = 1
    /\ Events(log, "update") = {}
    /\ Events(log, "move") = {}
    /\ hist # <<>>
    /\ Cardinality(NewFiles) = 1
    /\ NewPositions # {}

\* C6 as the spec states it: the new file has a block on a position the
\* deleted file freed and the first free position is past its last block
C6_Original ==
    C6_Case =>
        /\ NewPositions \cap FreedPositions # {}
        /\ \A q \in NewPositions : disk.first_free_block > q

\* C6: in a scan that frees positions and gives blocks to new files, the new
\* blocks are on the lowest positions with no block of a file, which are
\* the freed ones only when no lower position was free already: after the
\* scan no position without a block of a file is below a new block, and the
\* first free position is the one after the last new block. Deleting x at
\* 0, 1 (BLK, BLK) and adding y of one block gives y at 0 in state CHG, a
\* deleted block with H2 at 1 and the first free position 1
C6_NewFileInLowestFree ==
    /\ Completed /\ hist # <<>> /\ NewPositions # {} =>
           /\ \A p \in FreePositions : \A q \in NewPositions : p > q
           /\ disk.first_free_block - 1 \in NewPositions
           /\ \A q \in NewPositions : disk.first_free_block > q
    /\ Completed /\ S5_Case => S5_Result

\* the scan of the catalog of x alone against the filesystem of y alone is
\* done
C6_Witness ==
    /\ Completed
    /\ S5_Case
    /\ C6_Case
    /\ Len(hist) = 2

-----------------------------------------------------------------------------
(* C7 *)

\* C7: in a second run of state_scan on the catalog the first run left,
\* with the presence flags cleared and the filesystem as it was, nothing is
\* counted as a move, a restore, a change, a remove or an insert, nothing
\* but equal is reported, in the summary too, need_write is not raised and
\* the run does not fail
C7_SecondScanClean ==
    run >= 2 /\ pc # "start" =>
        /\ scan.count_move = 0
        /\ scan.count_restore = 0
        /\ scan.count_change = 0
        /\ scan.count_remove = 0
        /\ scan.count_insert = 0
        /\ \A i \in 1..Len(log) :
               \/ log[i].ev = "equal"
               \/ log[i].ev = "summary" /\ log[i].sub # <<"exit">>
               \/ log[i] = SummaryExit(scan_alloc)
        /\ ~state.need_write
        /\ pc # "fatal"

\* the second run is done on a disk without persistent inodes that holds a
\* hardlink, after a first run that changed the catalog
C7_Witness ==
    /\ run = 2
    /\ Completed
    /\ ~fs.has_persistent_inode
    /\ load.past[1].need_write
    /\ load.past[1].scan.count_insert > 0
    /\ \E l \in DOMAIN disk.links : disk.links[l].kind = "HARDLINK"
    /\ scan.count_equal = 2

-----------------------------------------------------------------------------
(* C8 *)

\* the disk has persistent inodes
Persistent == fs.has_persistent_inode /\ ~disk.has_not_persistent_inodes

\* the records of the log about a path
About(l, sub) == {i \in 1..Len(l) : l[i].sub = sub \/ l[i].to = sub}

\* the file f of the catalog d0 was renamed: the path it had is gone and
\* the first live file with its inode, the call i, has its size and time
Renamed(d0, f, i) ==
    /\ Persistent
    /\ Calls[i].op = "file"
    /\ Calls[i].st.st_ino = d0.files[f].inode
    /\ file_not_changed(d0.files[f], Calls[i].st)
    /\ Calls[i].sub # d0.files[f].sub
    /\ \A j \in 1..Len(Calls) : Calls[j].sub # d0.files[f].sub
    /\ \A j \in 1..(i - 1) :
           ~(Calls[j].op = "file" /\ Calls[j].st.st_ino = d0.files[f].inode)

\* C8: on a disk with persistent inodes, for a file of the catalog that was
\* renamed (the first live file with its inode has its size and time, and
\* its old path is gone) the scan reports one move, from the old path to the
\* new one, and no insert or remove of the file: the file stays in the
\* catalog with its blocks and its inode under the new path, the search by
\* path finds it under the new path and nothing under the old one, the
\* search by inode finds it, and need_write is set. The next scan of the
\* same filesystem reports the new path as equal and nothing else about it
C8_RenameIsOneMove ==
    /\ Completed =>
           \A f \in DOMAIN load.disk.files : \A i \in 1..Len(Calls) :
               Renamed(load.disk, f, i) =>
                   LET old == load.disk.files[f].sub
                       new == Calls[i].sub
                   IN  /\ \E m \in Events(log, "move") :
                              /\ log[m].sub = old /\ log[m].to = new
                              /\ About(log, old) = {m}
                              /\ About(log, new) \cap
                                     (Events(log, "move") \cup Events(log, "add")
                                        \cup Events(log, "update")
                                        \cup Events(log, "restore")
                                        \cup Events(log, "equal")) = {m}
                       /\ scan.count_move >= 1
                       /\ f \in DOMAIN disk.files
                       /\ disk.files[f].sub = new
                       /\ disk.files[f].inode = load.disk.files[f].inode
                       /\ disk.files[f].blockvec = load.disk.files[f].blockvec
                       /\ tommy_hashdyn_search(disk.pathset,
                              file_path_compare(disk), new) = f
                       /\ tommy_hashdyn_search(disk.pathset,
                              file_path_compare(disk), old) = NoObj
                       /\ tommy_hashdyn_search(disk.inodeset, file_inode_compare_to_arg(disk),
                              load.disk.files[f].inode) = f
                       /\ state.need_write
    /\ Completed /\ run = 2 =>
           \A f \in DOMAIN load.past[1].disk.files : \A i \in 1..Len(Calls) :
               Renamed(load.past[1].disk, f, i) =>
                   /\ About(log, Calls[i].sub) # {}
                   /\ About(log, Calls[i].sub) \subseteq Events(log, "equal")
                   /\ About(log, load.past[1].disk.files[f].sub) = {}
                   /\ f \in DOMAIN disk.files
                   /\ [disk.files[f] EXCEPT !.present = FALSE] = load.disk.files[f]

\* the scan after the scan that found a file with blocks renamed is done
C8_Witness ==
    /\ Completed
    /\ run = 2
    /\ \E f \in DOMAIN load.past[1].disk.files : \E i \in 1..Len(Calls) :
           /\ Renamed(load.past[1].disk, f, i)
           /\ load.past[1].scan.count_move = 1
           /\ Len(disk.files[f].blockvec) = 2

-----------------------------------------------------------------------------
(* C9 *)

\* the file f of the catalog is on disk under its path, the call i, with
\* its size and time and another inode
Rewritten(f, i) ==
    /\ Calls[i].op = "file"
    /\ Calls[i].sub = load.disk.files[f].sub
    /\ file_not_changed(load.disk.files[f], Calls[i].st)
    /\ Calls[i].st.st_ino # load.disk.files[f].inode

\* no live file has the inode the catalog stores for f with the size and
\* time of f: f is not taken for a moved file
NotMovedAway(f) ==
    \A j \in 1..Len(Calls) :
        ~(/\ Calls[j].op = "file"
          /\ Calls[j].st.st_ino = load.disk.files[f].inode
          /\ file_not_changed(load.disk.files[f], Calls[j].st))

\* no other file of the catalog has the inode seen with the size and time
\* seen: no other file is taken for moved to the path of f
NotMovedOnto(f, i) ==
    \A g \in DOMAIN load.disk.files \ {f} :
        ~(/\ load.disk.files[g].inode = Calls[i].st.st_ino
          /\ file_not_changed(load.disk.files[g], Calls[i].st))

\* no live file seen before has the inode seen: the file is no hardlink of
\* one already scanned
NotLinked(i) ==
    \A j \in 1..(i - 1) :
        ~(Calls[j].op = "file" /\ Calls[j].st.st_ino = Calls[i].st.st_ino)

\* the one record of the log about the path of f is of the given kind
OneRecord(f, ev) ==
    \E r \in Events(log, ev) : About(log, load.disk.files[f].sub) = {r}

\* C9 as the spec states it: on a disk with persistent inodes every file of
\* the catalog that is on disk under its path with its size and time and
\* another inode is counted as one restore and has the inode seen; on a
\* disk without persistent inodes it is counted as equal
C9_Original ==
    Completed =>
        \A f \in DOMAIN load.disk.files : \A i \in 1..Len(Calls) :
            Rewritten(f, i) =>
                IF Persistent
                THEN /\ OneRecord(f, "restore")
                     /\ f \in DOMAIN disk.files
                     /\ disk.files[f].inode = Calls[i].st.st_ino
                ELSE OneRecord(f, "equal")

\* C9: a file of the catalog that is on disk under its path with its size
\* and time and another inode, when no live file has its stored inode with
\* its size and time, no other file of the catalog has the inode seen with
\* the size and time seen, and no live file scanned before has the inode
\* seen, is counted on a disk with persistent inodes as one restore: its
\* inode becomes the one seen, the search by inode finds it under the new
\* inode and no more under the old one, its blocks are untouched and
\* need_write is set. On a disk without persistent inodes a file of the
\* catalog that is on disk under its path with its size and time, when no
\* live file scanned before has the inode seen, is counted as equal
C9_RestoreByPath ==
    Completed =>
        \A f \in DOMAIN load.disk.files : \A i \in 1..Len(Calls) :
            /\ Persistent /\ Rewritten(f, i) /\ NotMovedAway(f)
               /\ NotMovedOnto(f, i) /\ NotLinked(i) =>
                   /\ OneRecord(f, "restore")
                   /\ scan.count_restore >= 1
                   /\ f \in DOMAIN disk.files
                   /\ disk.files[f].sub = load.disk.files[f].sub
                   /\ disk.files[f].inode = Calls[i].st.st_ino
                   /\ disk.files[f].blockvec = load.disk.files[f].blockvec
                   /\ tommy_hashdyn_search(disk.inodeset, file_inode_compare_to_arg(disk),
                          Calls[i].st.st_ino) = f
                   /\ tommy_hashdyn_search(disk.inodeset, file_inode_compare_to_arg(disk),
                          load.disk.files[f].inode) # f
                   /\ state.need_write
            /\ ~Persistent /\ Rewritten(f, i) /\ NotLinked(i) =>
                   /\ OneRecord(f, "equal")
                   /\ f \in DOMAIN disk.files
                   /\ disk.files[f].blockvec = load.disk.files[f].blockvec

\* the scan of a disk with persistent inodes is done and counted one
\* restore, of a file with blocks
C9_Witness ==
    /\ Completed
    /\ Persistent
    /\ scan.count_restore = 1
    /\ \E f \in DOMAIN load.disk.files : \E i \in 1..Len(Calls) :
           /\ Rewritten(f, i) /\ NotMovedAway(f) /\ NotMovedOnto(f, i)
           /\ NotLinked(i)
           /\ Len(load.disk.files[f].blockvec) = 2

-----------------------------------------------------------------------------
(* C10 *)

\* what the scan counted as found
CountFound ==
    scan.count_equal + scan.count_move + scan.count_restore
        + scan.count_change + scan.count_insert

\* the objects of a catalog
Objects(d) ==
    Cardinality(DOMAIN d.files) + Cardinality(DOMAIN d.links)
        + Cardinality(DOMAIN d.dirs)

\* the objects of a collection no live entry was matched to
Missing(objs) == {o \in DOMAIN objs : ~objs[o].present}

\* C10 as the spec states it: what the scan counted as found is the number
\* of the live regular files that passed the filter
C10_Original ==
    Completed =>
        CountFound = Cardinality({i \in 1..Len(Calls) : Calls[i].op = "file"})

\* the sweep of the files counts and drops the files without the flag
SweepsFiles ==
    pc = "walk" /\ pc' = "remove_links" =>
        /\ scan'.count_remove =
               scan.count_remove + Cardinality(Missing(disk.files))
        /\ DOMAIN disk'.files = DOMAIN disk.files \ Missing(disk.files)

\* the sweep of the links counts and drops the links without the flag
SweepsLinks ==
    pc = "remove_links" /\ pc' = "remove_dirs" =>
        /\ scan'.count_remove =
               scan.count_remove + Cardinality(Missing(disk.links))
        /\ DOMAIN disk'.links = DOMAIN disk.links \ Missing(disk.links)

\* the sweep of the directories counts and drops the directories without
\* the flag
SweepsDirs ==
    pc = "remove_dirs" /\ pc' = "sort" =>
        /\ scan'.count_remove =
               scan.count_remove + Cardinality(Missing(disk.dirs))
        /\ DOMAIN disk'.dirs = DOMAIN disk.dirs \ Missing(disk.dirs)

\* nothing is counted as removed after the sweeps
SweepsOver ==
    pc \in {"sort", "insert", "insert_dirs", "check"} =>
        scan'.count_remove = scan.count_remove

\* C10: the counters are of the files, the links and the empty directories
\* together. After the scan count_equal + count_move + count_restore +
\* count_change + count_insert is the number of the live regular files,
\* symbolic links and empty directories that passed the filter;
\* count_remove is the number of the files, links and directories of the
\* catalog that no live entry was matched to: each sweep counts and drops
\* exactly the objects without the presence flag, nothing is counted as
\* removed before or after, and the catalog ends with the objects it had,
\* less count_remove, plus count_insert
C10_CountersBalance ==
    /\ [](Completed =>
            /\ CountFound = Len(Calls)
            /\ Objects(disk) =
                   Objects(load.disk) - scan.count_remove + scan.count_insert)
    /\ [](pc = "walk" => scan.count_remove = 0)
    /\ [][SweepsFiles]_vars
    /\ [][SweepsLinks]_vars
    /\ [][SweepsDirs]_vars
    /\ [][SweepsOver]_vars

\* the scan is done: it found a file, a symbolic link and an empty
\* directory, and it removed a file and a link of the catalog
C10_Witness ==
    /\ Completed
    /\ run = 1
    /\ \E i \in 1..Len(Calls) : Calls[i].op = "link"
    /\ \E i \in 1..Len(Calls) : Calls[i].op = "emptydir"
    /\ scan.count_remove = 2
    /\ DOMAIN load.disk.files \ DOMAIN disk.files # {}
    /\ DOMAIN load.disk.links \ DOMAIN disk.links # {}

-----------------------------------------------------------------------------
(* C11 *)

\* no two places of a container hold objects of one path, and none holds an
\* object twice
NoTwice(seq, objs) ==
    \A i, j \in 1..Len(seq) : i # j => objs[seq[i]].sub # objs[seq[j]].sub

\* no two objects of a collection have one path
OnePerPath(objs) ==
    \A f, g \in DOMAIN objs : f # g => objs[f].sub # objs[g].sub

\* C11: after state_scan, for a catalog and a filesystem whose paths are
\* distinct, no path is twice among the files, among the links or among the
\* empty directories of the disk: not among the objects, not in the list,
\* not in the set searched by path
C11_UniquePaths ==
    Completed =>
        /\ OnePerPath(disk.files)
        /\ NoTwice(disk.filelist, disk.files)
        /\ NoTwice(disk.pathset, disk.files)
        /\ OnePerPath(disk.links)
        /\ NoTwice(disk.linklist, disk.links)
        /\ NoTwice(disk.linkset, disk.links)
        /\ OnePerPath(disk.dirs)
        /\ NoTwice(disk.dirlist, disk.dirs)
        /\ NoTwice(disk.dirset, disk.dirs)

\* the scan is done and it moved a file to the path another file of the
\* catalog had
C11_Witness ==
    /\ Completed
    /\ run = 1
    /\ \E m \in Events(log, "move") : \E g \in DOMAIN load.disk.files :
           /\ load.disk.files[g].sub = log[m].to
           /\ \E f \in DOMAIN disk.files : disk.files[f].sub = log[m].to

-----------------------------------------------------------------------------
(* C12 *)

\* the places of the set of the paths that hold a file of the given path
IndexedAt(sub) ==
    {i \in 1..Len(disk.pathset) : disk.files[disk.pathset[i]].sub = sub}


\* C12 as the spec states it: during the walk, after each directory entry,
\* no two files are in the set of the paths under one path
C12_Original ==
    pc = "walk" => NoTwice(disk.pathset, disk.files)

\* C12: during the walk, after each directory entry, no two files that were
\* matched to an entry (PRESENT) are in the set of the paths under one path,
\* and no two that were not matched; a path holds two files only as one
\* that is PRESENT and one that is not, which is what a move to the path of
\* a file of the catalog not yet matched leaves. Once the sweep of the files
\* is over no path holds two files
C12_PathIndex ==
    /\ pc = "walk" =>
           \A i, j \in 1..Len(disk.pathset) :
               /\ i # j
               /\ disk.files[disk.pathset[i]].sub = disk.files[disk.pathset[j]].sub
               => /\ disk.pathset[i] # disk.pathset[j]
                  /\ disk.files[disk.pathset[i]].present
                         # disk.files[disk.pathset[j]].present
    /\ pc \in {"remove_links", "remove_dirs", "sort", "insert", "insert_dirs",
                "check", "done"} =>
           NoTwice(disk.pathset, disk.files)

\* during the walk a file was moved to the path of a file of the catalog
\* that no entry was matched to: the set of the paths holds both
C12_Witness ==
    /\ pc = "walk"
    /\ \E m \in Events(log, "move") :
           /\ Cardinality(IndexedAt(log[m].to)) = 2
           /\ \E i \in IndexedAt(log[m].to) :
                  /\ disk.pathset[i] \in DOMAIN load.disk.files
                  /\ ~disk.files[disk.pathset[i]].present
                  /\ load.disk.files[disk.pathset[i]].sub = log[m].to

-----------------------------------------------------------------------------
(* C13 *)

\* no block of a file the current run allocated has a position: no call of
\* scan_file_insert gave a position yet
NoSlotAssigned ==
    \A f \in NewFiles : \A k \in 1..Len(disk.files[f].blockvec) :
        disk.files[f].blockvec[k].parity_pos = POS_INVALID

\* the step turned blocks of files into deleted blocks
RemovesBlocks == Len(hist') > Len(hist)

\* a step that frees blocks starts and ends with no position given
DeletesFirst == RemovesBlocks => NoSlotAssigned /\ NoSlotAssigned'

\* a call of scan_file_insert frees no block
InsertsLast == InsertStep => hist' = hist

\* C13: in the scan of a disk every step that takes blocks of a file out of
\* the block array, for a changed file during the walk as for a missing
\* file in the sweep, is done while no block of a new file has a position,
\* and no call of scan_file_insert takes a block out: no delete follows an
\* insert
C13_DeletesBeforeInserts ==
    [][DeletesFirst]_vars /\ [][InsertsLast]_vars

\* the scan is done: the walk freed the blocks of a changed file, the sweep
\* the blocks of a missing one, and a new file got positions after that
C13_Witness ==
    /\ Completed
    /\ Events(log, "update") # {}
    /\ Events(log, "remove") # {}
    /\ Len(hist) >= 2
    /\ \E f \in NewFiles : Len(disk.files[f].blockvec) > 0
    /\ ~NoSlotAssigned

-----------------------------------------------------------------------------
(* C14 *)

\* the step is the call of scan_file for the next entry of the walk
FileStep ==
    /\ pc = "walk" /\ local.todo # <<>> /\ Head(local.todo).op = "file"
    /\ local'.todo = Tail(local.todo)

\* the files with the inode seen that are already PRESENT and have the
\* size and the time seen
SeenBefore(st) ==
    {g \in DOMAIN disk.files :
        /\ ~disk.files[g].without_inode
        /\ disk.files[g].inode = st.st_ino
        /\ disk.files[g].present
        /\ file_not_changed(disk.files[g], st)}

\* the files and what they are found by stay as they are
FilesUntouched ==
    /\ disk'.files = disk.files
    /\ disk'.pathset = disk.pathset
    /\ disk'.inodeset = disk.inodeset
    /\ disk'.filelist = disk.filelist
    /\ scan'.file_insert_list = scan.file_insert_list

\* the entry is reconciled as a hardlink to the file g: one link counter
\* goes up by one, the link of the path is a hardlink to the path of g
HardlinkTo(c, g) ==
    /\ pc' = "walk"
    /\ FilesUntouched
    /\ \E l \in DOMAIN disk'.links :
           /\ disk'.links[l] = [sub |-> c.sub, linkto |-> disk.files[g].sub,
                                kind |-> "HARDLINK", present |-> TRUE]
           /\ l \notin DOMAIN disk.links =>
                  scan'.link_insert_list = Append(scan.link_insert_list, l)
    /\ \E counter \in {"count_equal", "count_change", "count_insert"} :
           scan' = [scan EXCEPT ![counter] = @ + 1,
                                !.link_insert_list = scan'.link_insert_list]
    /\ \E ev \in {"equal", "update", "add"} :
           log' = Append(log, [ev |-> ev, sub |-> c.sub, to |-> <<>>])

\* what the step does with an entry whose inode is the one of a PRESENT
\* file with its size and time
HardlinkOrFatal ==
    FileStep =>
        LET c == Head(local.todo)
        IN  \A g \in SeenBefore(c.st) :
                IF c.st.st_nlink > 1
                THEN HardlinkTo(c, g)
                ELSE pc' = "fatal" /\ FilesUntouched /\ disk'.links = disk.links
                     /\ scan' = scan

\* C14: an entry of a regular file whose inode is the inode of a file that
\* is PRESENT already, of the catalog or new in this scan, with the size
\* and the time of the entry, is reconciled when it has more than one link
\* as a link of kind HARDLINK to the path of that file: no file is created
\* or changed, the file keeps its path, and one of count_equal,
\* count_change and count_insert goes up by one, for the link. With one
\* link the scan fails
C14_Hardlink ==
    [][HardlinkOrFatal]_vars

\* the walk met a second name of a file new in this scan and queued a
\* hardlink to it
C14_Witness ==
    /\ pc = "walk"
    /\ \E l \in DOMAIN disk.links : \E f \in NewFiles :
           /\ disk.links[l].kind = "HARDLINK"
           /\ disk.links[l].present
           /\ disk.links[l].linkto = disk.files[f].sub
           /\ disk.files[f].present
           /\ \E i \in 1..Len(scan.link_insert_list) :
                  scan.link_insert_list[i] = l

-----------------------------------------------------------------------------
(* C15 *)

\* the disk is reported as one without persistent inodes
NotPersistent == ~fs.has_persistent_inode

\* the paths of the objects of a catalog
CatalogPaths(d) ==
    {d.files[f].sub : f \in DOMAIN d.files}
        \cup {d.links[l].sub : l \in DOMAIN d.links}
        \cup {d.dirs[x].sub : x \in DOMAIN d.dirs}

\* the file f of the catalog is on disk under its path, the call i, with
\* its size and time
Unchanged(f, i) ==
    /\ Calls[i].op = "file"
    /\ Calls[i].sub = load.disk.files[f].sub
    /\ file_not_changed(load.disk.files[f], Calls[i].st)

\* the path of the file f of the catalog is gone and the call i is a file
\* with its size and time under a path the catalog does not have
PathChanged(f, i) ==
    /\ Calls[i].op = "file"
    /\ file_not_changed(load.disk.files[f], Calls[i].st)
    /\ Calls[i].sub \notin CatalogPaths(load.disk)
    /\ \A j \in 1..Len(Calls) : Calls[j].sub # load.disk.files[f].sub

\* the one record of the log about a path is of the given kind
OneRecordAbout(sub, ev) ==
    \E r \in Events(log, ev) : About(log, sub) = {r}

\* on a disk without persistent inodes no move is counted or reported, in
\* no state of the scan
NeverMoves ==
    NotPersistent => scan.count_move = 0 /\ Events(log, "move") = {}

\* a file whose path changed is reported as an insert and a remove
MoveIsInsertAndRemove ==
    NotPersistent /\ Completed =>
        \A f \in DOMAIN load.disk.files : \A i \in 1..Len(Calls) :
            PathChanged(f, i) =>
                /\ OneRecordAbout(load.disk.files[f].sub, "remove")
                /\ OneRecordAbout(Calls[i].sub, "add")
                /\ scan.count_remove >= 1
                /\ scan.count_insert >= 1
                /\ f \notin DOMAIN disk.files

\* C15 as the spec states it: on a disk without persistent inodes no move
\* is counted, a file whose path changed is an insert and a remove, and
\* every file of the catalog that is on disk under its path with its size
\* and time is reported as equal
C15_Original ==
    /\ NeverMoves
    /\ MoveIsInsertAndRemove
    /\ NotPersistent /\ Completed =>
           \A f \in DOMAIN load.disk.files : \A i \in 1..Len(Calls) :
               Unchanged(f, i) => OneRecord(f, "equal")

\* C15: on a disk without persistent inodes no move is counted, for every
\* catalog and filesystem; a file whose path changed is reported as one
\* insert and one remove, also when its inode is the one of the catalog;
\* a file of the catalog that is on disk under its path with its size and
\* time is reported as equal and stays in the catalog with its blocks,
\* whatever its inode, when no entry scanned before it has the same inode;
\* when one has, the entry is a hardlink and the file leaves the catalog
C15_NoMoveWithoutInodes ==
    /\ NeverMoves
    /\ MoveIsInsertAndRemove
    /\ NotPersistent /\ Completed =>
           \A f \in DOMAIN load.disk.files : \A i \in 1..Len(Calls) :
               /\ Unchanged(f, i) /\ NotLinked(i) =>
                      /\ OneRecord(f, "equal")
                      /\ scan.count_equal >= 1
                      /\ f \in DOMAIN disk.files
                      /\ disk.files[f].sub = load.disk.files[f].sub
                      /\ disk.files[f].blockvec = load.disk.files[f].blockvec
               /\ Unchanged(f, i) /\ ~NotLinked(i) =>
                      /\ f \notin DOMAIN disk.files
                      /\ \E l \in DOMAIN disk.links :
                             /\ disk.links[l].sub = Calls[i].sub
                             /\ disk.links[l].kind = "HARDLINK"

\* the scan of a disk without persistent inodes is done: a file of the
\* catalog, with blocks, is on disk under another path with the inode the
\* catalog has for it
C15_Witness ==
    /\ Completed
    /\ NotPersistent
    /\ run = 1
    /\ \E f \in DOMAIN load.disk.files : \E i \in 1..Len(Calls) :
           /\ PathChanged(f, i)
           /\ Calls[i].st.st_ino = load.disk.files[f].inode
           /\ Len(load.disk.files[f].blockvec) = 2

-----------------------------------------------------------------------------
(* C16 *)

\* the files the search by path of the entry c finds, when the search by
\* inode has not settled the entry: no file with the inode seen has the
\* size and time seen or is PRESENT
FoundByPath(c) ==
    {f \in DOMAIN disk.files :
        /\ disk.files[f].sub = c.sub
        /\ ~disk.files[f].present
        /\ \A g \in DOMAIN disk.files :
               ~disk.files[g].without_inode /\ disk.files[g].inode = c.st.st_ino
               => ~file_not_changed(disk.files[g], c.st) /\ ~disk.files[g].present}

\* every block of the file f is the block its position of the array holds
Referenced(d, f) ==
    \A k \in 1..Len(d.files[f].blockvec) :
        d.blockarr[d.files[f].blockvec[k].parity_pos + 1] = FileCell(f, k)

\* the scan fails on the file f and leaves it as it was
FailsBeforeDelete(f) ==
    /\ pc' = "fatal"
    /\ log' = Append(log, Failure("unexpected zero size"))
    /\ f \in DOMAIN disk'.files
    /\ disk'.files[f].blockvec = disk.files[f].blockvec
    /\ disk'.blockarr = disk.blockarr
    /\ Referenced(disk', f)
    /\ disk'.deleted = disk.deleted
    /\ hist' = hist
    /\ scan' = scan

\* the file f is a change like another: counted, removed with its blocks
\* turned into deleted blocks, a file of size zero queued in its place
OrdinaryChange(c, f) ==
    /\ pc' = "walk"
    /\ scan'.count_change = scan.count_change + 1
    /\ log' = Append(log, [ev |-> "update", sub |-> c.sub, to |-> <<>>])
    /\ f \notin DOMAIN disk'.files
    /\ Len(hist') = Len(hist) + Len(disk.files[f].blockvec)
    /\ \E n \in DOMAIN disk'.files \ DOMAIN disk.files :
           /\ disk'.files[n].sub = c.sub
           /\ disk'.files[n].size = 0
           /\ scan'.file_insert_list = Append(scan.file_insert_list, n)
    /\ state'.need_write

\* what the step does with an entry of size 0 found by path on a file that
\* is stored with another size
ZeroSizeGuard ==
    FileStep =>
        LET c == Head(local.todo)
        IN  \A f \in FoundByPath(c) :
                /\ disk.files[f].size # 0 /\ c.st.st_size = 0
                /\ \A k \in 1..Len(disk.files[f].blockvec) :
                       remove_state_ok(disk.files[f].blockvec[k].state)
                => IF ~state.opt.force_zero
                   THEN FailsBeforeDelete(f)
                   ELSE OrdinaryChange(c, f)

\* C16: when a file of the catalog whose stored size is not 0 is found by
\* path with the size 0 and force_zero is not set, the scan fails before
\* the file is deleted: its blocks stay the blocks the array holds at their
\* positions, no deleted block is made and count_change stays. With
\* force_zero set the entry is a change like another
C16_ZeroSizeGuard ==
    [][ZeroSizeGuard]_vars

\* the scan failed on a file of two blocks found with the size 0
C16_Witness ==
    /\ pc = "fatal"
    /\ Len(log) > 0
    /\ log[Len(log)] = Failure("unexpected zero size")
    /\ \E f \in DOMAIN disk.files : \E i \in 1..Len(Calls) :
           /\ Calls[i].sub = disk.files[f].sub
           /\ Calls[i].st.st_size = 0
           /\ Len(disk.files[f].blockvec) = 2
           /\ Referenced(disk, f)

-----------------------------------------------------------------------------
(* C17 *)

\* nothing of the catalog was found as it was, moved or restored, and
\* something of it was removed or changed
Emptied ==
    /\ scan.count_equal = 0 /\ scan.count_move = 0 /\ scan.count_restore = 0
    /\ (scan.count_remove # 0 \/ scan.count_change # 0)

\* the same, told from the records of the scan
EmptiedByLog ==
    /\ Events(log, "equal") \cup Events(log, "move")
           \cup Events(log, "restore") = {}
    /\ Events(log, "remove") \cup Events(log, "update") # {}

\* the step of the checks that follow the scan fails exactly on a disk
\* emptied without force_empty, and returns otherwise
ChecksEmptied ==
    pc = "check" =>
        /\ pc' = "fatal" <=> ~state.opt.force_empty /\ Emptied
        /\ pc' = "fatal" <=> ~state.opt.force_empty /\ EmptiedByLog
        /\ pc' = "fatal" =>
               log' = Append(log, Failure("disk emptied"))
        /\ pc' # "fatal" => pc' = "done"

\* C17: after the scan of the disk state_scan fails if and only if
\* force_empty is not set and the disk has count_equal = 0, count_move = 0,
\* count_restore = 0 and count_remove or count_change other than 0; a disk
\* with nothing in its catalog, where the scan only inserts, does not fail
C17_EmptyDiskCheck ==
    /\ [][ChecksEmptied]_vars
    /\ [](pc = "check" /\ Objects(load.disk) = 0 =>
             ~Emptied /\ scan.count_remove = 0 /\ scan.count_change = 0)

\* the scan failed on a disk whose two files were both rewritten: removed
\* or changed, and inserted again
C17_Witness ==
    /\ pc = "fatal"
    /\ Len(log) > 0
    /\ log[Len(log)] = Failure("disk emptied")
    /\ ~state.opt.force_empty
    /\ scan.count_change + scan.count_remove = 2
    /\ scan.count_insert > 0

-----------------------------------------------------------------------------
(* C18 *)

\* the files the run started with and still has
KeptFiles == DOMAIN disk.files \cap DOMAIN load.disk.files

\* an object was inserted in the catalog or deleted from it
InsertedOrDeleted ==
    \/ DOMAIN disk.files # DOMAIN load.disk.files
    \/ DOMAIN disk.links # DOMAIN load.disk.links
    \/ DOMAIN disk.dirs # DOMAIN load.disk.dirs

\* a file was renamed
FileRenamed == \E f \in KeptFiles : disk.files[f].sub # load.disk.files[f].sub

\* the kind or the target of a link changed
LinkChanged ==
    \E l \in DOMAIN disk.links \cap DOMAIN load.disk.links :
        \/ disk.links[l].kind # load.disk.links[l].kind
        \/ disk.links[l].linkto # load.disk.links[l].linkto

\* the stored inode of a file changed
InodeChanged ==
    \E f \in KeptFiles : disk.files[f].inode # load.disk.files[f].inode

\* the nanoseconds of the time of a file were INVALID and are no more
NsecUpgraded ==
    \E f \in KeptFiles :
        /\ load.disk.files[f].mtime_nsec = STAT_NSEC_INVALID
        /\ disk.files[f].mtime_nsec # STAT_NSEC_INVALID

\* the scan reported something other than equal
Reported ==
    \E i \in 1..Len(log) :
        log[i].ev \in {"move", "restore", "update", "add", "remove"}

\* C18 as the spec states it: need_write is true after a scan that renamed
\* a file, changed a link, changed the stored inode of a file, upgraded
\* the nanoseconds of a file or inserted or deleted an object
C18_Original ==
    Completed /\ (\/ FileRenamed \/ LinkChanged \/ InodeChanged
                  \/ NsecUpgraded \/ InsertedOrDeleted)
        => state.need_write

\* C18: need_write is true after a scan that renamed a file, changed the
\* kind or the target of a link, changed the stored inode of a file of a
\* disk with persistent inodes, upgraded the nanoseconds of a file from
\* INVALID, or inserted or deleted a file, a link or an empty directory;
\* so it is after a scan that reported a move, a restore, an update, an
\* add or a remove
C18_NeedWrite ==
    Completed /\ (\/ FileRenamed \/ LinkChanged
                  \/ Persistent /\ InodeChanged
                  \/ NsecUpgraded \/ InsertedOrDeleted \/ Reported)
        => state.need_write

\* the scan is done and all it changed are the nanoseconds of a file
C18_Witness ==
    /\ Completed
    /\ run = 1
    /\ NsecUpgraded
    /\ ~Reported /\ ~InsertedOrDeleted /\ ~InodeChanged
    /\ state.need_write

-----------------------------------------------------------------------------
(* C19 *)

\* the files of the inode set with the given inode
WithInode(ino) ==
    {g \in DOMAIN disk.files :
        /\ \E k \in 1..Len(disk.inodeset) : disk.inodeset[k] = g
        /\ disk.files[g].inode = ino}

\* the file is stored with no nanoseconds, has not been seen in this scan and
\* has the size and the seconds seen
StoredInvalid(f, st) ==
    /\ ~disk.files[f].present
    /\ disk.files[f].mtime_nsec = STAT_NSEC_INVALID
    /\ disk.files[f].size = st.st_size
    /\ disk.files[f].mtime_sec = st.st_mtime

\* the search by inode of the entry c gives such a file
InvalidByInode(c) == {g \in WithInode(c.st.st_ino) : StoredInvalid(g, c.st)}

\* the search by inode of the entry c gives no file or one with another
\* size or time, and the search by path gives such a file
InvalidByPath(c) ==
    {f \in DOMAIN disk.files :
        /\ disk.files[f].sub = c.sub
        /\ \E k \in 1..Len(disk.pathset) : disk.pathset[k] = f
        /\ StoredInvalid(f, c.st)
        /\ \A g \in WithInode(c.st.st_ino) :
               /\ ~disk.files[g].present
               /\ \/ disk.files[g].size # c.st.st_size
                  \/ disk.files[g].mtime_sec # c.st.st_mtime
                  \/ disk.files[g].mtime_nsec \notin {c.st.st_nsec, STAT_NSEC_INVALID}}

\* the step reconciles the entry c with the file f as ev and not as a
\* change: the file keeps its blocks and takes the nanoseconds seen
ClassifiedAs(c, f, ev) ==
    /\ pc' = "walk"
    /\ f \in DOMAIN disk'.files
    /\ disk'.files[f].present
    /\ disk'.files[f].sub = c.sub
    /\ disk'.files[f].blockvec = disk.files[f].blockvec
    /\ disk'.files[f].size = disk.files[f].size
    /\ disk'.files[f].mtime_sec = disk.files[f].mtime_sec
    /\ disk'.files[f].mtime_nsec = c.st.st_nsec
    /\ DOMAIN disk'.files = DOMAIN disk.files
    /\ disk'.blockarr = disk.blockarr
    /\ disk'.deleted = disk.deleted
    /\ hist' = hist
    /\ scan' = [scan EXCEPT ![CASE ev = "equal" -> "count_equal"
                               [] ev = "move" -> "count_move"
                               [] OTHER -> "count_restore"] = @ + 1]
    /\ Len(log') = Len(log) + 1
    /\ log'[Len(log')].ev = ev
    /\ \A i \in 1..Len(log) : log'[i] = log[i]

\* what the step gives the file f found by inode, and found by path
ByInodeClass(c, f) == IF disk.files[f].sub = c.sub THEN "equal" ELSE "move"

ByPathClass == IF disk.has_not_persistent_inodes THEN "equal" ELSE "restore"

\* need_write after the step on a file stored with no nanoseconds: raised
\* when nanoseconds are seen; when none are seen it is raised by a move and
\* a restore and left as it is by an equal
NeedWriteByNsec(c, ev) ==
    IF c.st.st_nsec # STAT_NSEC_INVALID \/ ev # "equal"
    THEN state' = [state EXCEPT !.need_write = TRUE]
    ELSE state' = state

\* what the step does with a file stored with no nanoseconds
NsecAccepted ==
    FileStep =>
        LET c == Head(local.todo)
        IN  /\ \A f \in InvalidByInode(c) :
                   /\ ClassifiedAs(c, f, ByInodeClass(c, f))
                   /\ NeedWriteByNsec(c, ByInodeClass(c, f))
            /\ \A f \in InvalidByPath(c) :
                   /\ ClassifiedAs(c, f, ByPathClass)
                   /\ NeedWriteByNsec(c, ByPathClass)

\* the same with need_write raised in every case
NsecAcceptedAndWritten ==
    FileStep =>
        LET c == Head(local.todo)
        IN  /\ \A f \in InvalidByInode(c) :
                   /\ ClassifiedAs(c, f, ByInodeClass(c, f))
                   /\ state'.need_write
            /\ \A f \in InvalidByPath(c) :
                   /\ ClassifiedAs(c, f, ByPathClass)
                   /\ state'.need_write

\* C19 as the spec states it: a file stored with mtime_nsec INVALID whose
\* size and seconds are the ones seen is reconciled as equal or move when
\* found by inode and as equal or restore when found by path, takes the
\* nanoseconds seen, and need_write is raised
C19_Original ==
    [][NsecAcceptedAndWritten]_vars

\* C19: a file stored with mtime_nsec INVALID whose size and seconds are the
\* ones seen is never a change, whatever nanoseconds are seen: found by
\* inode it is equal or move, found by path it is equal or restore, and it
\* keeps its blocks. Its stored nanoseconds become the ones seen, and
\* need_write is raised when the ones seen are not INVALID; when they are
\* INVALID an equal file leaves need_write as it was
C19_NsecInvalid ==
    [][NsecAccepted]_vars

\* a finished scan took the nanoseconds of a file that was stored without
C19_Witness ==
    /\ Completed
    /\ run = 1
    /\ \E f \in KeptFiles :
           /\ load.disk.files[f].mtime_nsec = STAT_NSEC_INVALID
           /\ disk.files[f].mtime_nsec = 5
           /\ disk.files[f].blockvec = load.disk.files[f].blockvec
           /\ state.need_write
           /\ scan.count_change = 0

-----------------------------------------------------------------------------
(* C20 *)

\* the call of scan_file_insert of the step is for a file of no block
InsertsEmptyFile ==
    /\ InsertStep
    /\ disk.files[scan.file_insert_list[local.node]].size = 0

\* what scan_file_insert does with a file of no block
ZeroLengthInsert ==
    InsertsEmptyFile =>
        LET file == scan.file_insert_list[local.node]
        IN  /\ disk'.files[file].blockvec = <<>>
            /\ disk'.files = disk.files
            /\ disk'.blockarr = disk.blockarr
            /\ disk'.first_free_block = disk.first_free_block
            /\ disk'.deleted = disk.deleted
            /\ hist' = hist
            /\ disk'.filelist = Append(disk.filelist, file)
            /\ \A i \in 1..Len(disk.filelist) : disk.filelist[i] # file
            /\ state' = [state EXCEPT !.need_write = TRUE]

\* C20: scan_file_insert of a file of size 0 gives the file no block and
\* takes no position: the block array, its size and the first free position
\* are left as they are, no block is deleted, the file is appended to the
\* list of the files and need_write is set
C20_ZeroLengthInsert ==
    [][ZeroLengthInsert]_vars

\* the first file inserted was one of size 0, in a catalog with blocks and
\* nothing else changed so far
C20_Witness ==
    /\ pc = "insert"
    /\ local.node = 2
    /\ disk.files[scan.file_insert_list[1]].size = 0
    /\ disk.files[scan.file_insert_list[1]].blockvec = <<>>
    /\ disk.filelist[Len(disk.filelist)] = scan.file_insert_list[1]
    /\ Len(disk.blockarr) > 0
    /\ disk.blockarr = load.disk.blockarr
    /\ disk.first_free_block = 0
    /\ state.need_write

-----------------------------------------------------------------------------
(* C21 *)

\* the positions of the block array that are empty
EmptyPositions ==
    {pos \in 0..(Len(disk.blockarr) - 1) : disk.blockarr[pos + 1] = BLOCK_EMPTY}

\* C21: in every state of the scan, in the walk, after the removal of the
\* missing files and after every insert, first_free_block is not higher
\* than any empty position of the block array
C21_FirstFreeBound ==
    \A pos \in EmptyPositions : disk.first_free_block <= pos

\* a file was inserted, the first free position moved up and an empty
\* position is left at it or after it
C21_Witness ==
    /\ pc = "insert"
    /\ local.node > 1
    /\ disk.first_free_block > 0
    /\ EmptyPositions # {}

-----------------------------------------------------------------------------
(* C22 *)

\* how many times the object is in the sequence
TimesIn(seq, obj) == Cardinality({k \in 1..Len(seq) : seq[k] = obj})

\* the new files that wait for their call of scan_file_insert
Waiting ==
    CASE pc \in {"walk", "remove", "remove_links", "remove_dirs", "sort"} ->
           {scan.file_insert_list[k] : k \in 1..Len(scan.file_insert_list)}
      [] pc = "insert" ->
           {scan.file_insert_list[k] : k \in local.node..Len(scan.file_insert_list)}
      [] OTHER -> {}

\* every file with an inode is in the inode set, every file is in the path
\* set
FilesIndexed ==
    \A f \in DOMAIN disk.files :
        /\ ~disk.files[f].without_inode => TimesIn(disk.inodeset, f) = 1
        /\ disk.files[f].without_inode => TimesIn(disk.inodeset, f) = 0
        /\ TimesIn(disk.pathset, f) = 1

\* C22 as the spec states it: between the steps of the scan every file that
\* is not flagged without inode is in the inode set, and every file, the
\* new ones that wait in file_insert_list too, is in the path set and in
\* the list of the files
C22_Original ==
    pc # "fatal" =>
        /\ FilesIndexed
        /\ \A f \in DOMAIN disk.files : TimesIn(disk.filelist, f) = 1

\* C22: between the steps of the scan every file that is not flagged without
\* inode is in the inode set and every file, the new ones that wait in
\* file_insert_list too, is in the path set; every file is in the list of
\* the files but the new ones that wait in file_insert_list, which enter
\* it with their call of scan_file_insert
C22_FilesIndexed ==
    pc # "fatal" =>
        /\ FilesIndexed
        /\ \A f \in DOMAIN disk.files :
               TimesIn(disk.filelist, f) = IF f \in Waiting THEN 0 ELSE 1
        /\ Waiting \subseteq NewFiles

\* the walk forgot the inode of a catalogued file, and a new file waits
C22_Witness ==
    /\ pc = "walk"
    /\ Waiting # {}
    /\ \E f \in DOMAIN disk.files :
           /\ disk.files[f].without_inode
           /\ ~disk.has_not_persistent_inodes
           /\ f \notin Waiting

-----------------------------------------------------------------------------
(* C23 *)

\* the calls of the walk for the given path
CallsAt(sub) == {i \in 1..Len(Calls) : Calls[i].sub = sub}

\* the objects of a collection with the given path
ObjectsAt(objs, sub) == {o \in DOMAIN objs : objs[o].sub = sub}

\* the step of a sweep logs one remove record for each object that is not
\* present, counts each and drops it, and keeps the others
SweepRemoves(objs, objsAfter) ==
    /\ Len(log') = Len(log) + Cardinality(Missing(objs))
    /\ \A i \in 1..Len(log) : log'[i] = log[i]
    /\ \A i \in (Len(log) + 1)..Len(log') :
           /\ log'[i].ev = "remove"
           /\ \E o \in Missing(objs) : objs[o].sub = log'[i].sub
    /\ \A o \in Missing(objs) :
           Cardinality({i \in (Len(log) + 1)..Len(log') : log'[i].sub = objs[o].sub})
               = Cardinality(ObjectsAt(objs, objs[o].sub) \cap Missing(objs))
    /\ scan'.count_remove = scan.count_remove + Cardinality(Missing(objs))
    /\ DOMAIN objsAfter = DOMAIN objs \ Missing(objs)
    /\ \A o \in DOMAIN objsAfter : objsAfter[o] = objs[o]

SweepsRemoveMissing ==
    /\ pc = "walk" /\ pc' = "remove_links" => SweepRemoves(disk.files, disk'.files)
    /\ pc = "remove_links" /\ pc' = "remove_dirs" =>
           SweepRemoves(disk.links, disk'.links)
    /\ pc = "remove_dirs" /\ pc' = "sort" => SweepRemoves(disk.dirs, disk'.dirs)

\* every object of the catalog is one a live entry was matched to or made
\* for, and every live entry has its one object
Mirrors ==
    /\ \A i, j \in 1..Len(Calls) : Calls[i].sub = Calls[j].sub => i = j
    /\ \A f \in DOMAIN disk.files :
           /\ disk.files[f].present
           /\ \E i \in CallsAt(disk.files[f].sub) :
                  /\ Calls[i].op = "file"
                  /\ disk.files[f].size = Calls[i].st.st_size
                  /\ disk.files[f].mtime_sec = Calls[i].st.st_mtime
    /\ \A l \in DOMAIN disk.links :
           /\ disk.links[l].present
           /\ \E i \in CallsAt(disk.links[l].sub) :
                  \/ /\ Calls[i].op = "link"
                     /\ disk.links[l].kind = "SYMLINK"
                     /\ disk.links[l].linkto = Calls[i].linkto
                  \/ /\ Calls[i].op = "file"
                     /\ disk.links[l].kind = "HARDLINK"
    /\ \A x \in DOMAIN disk.dirs :
           /\ disk.dirs[x].present
           /\ \E i \in CallsAt(disk.dirs[x].sub) : Calls[i].op = "emptydir"
    /\ \A i \in 1..Len(Calls) :
           IF Calls[i].op = "emptydir"
           THEN Cardinality(ObjectsAt(disk.dirs, Calls[i].sub)) = 1
           ELSE Cardinality(ObjectsAt(disk.files, Calls[i].sub))
                    + Cardinality(ObjectsAt(disk.links, Calls[i].sub)) = 1

\* C23: after state_scan the catalog mirrors the filesystem. Each sweep
\* removes exactly the files, links and empty directories that the walk did
\* not mark PRESENT, with one count_remove and one remove record each; every
\* object left is PRESENT and is the object of exactly one live entry, a
\* file with the size and the seconds seen, a symbolic link with the target
\* seen; every live regular file and symbolic link that passed the filter
\* has exactly one object of its path, a file or a link, and every live
\* empty directory has one
C23_CatalogMirrors ==
    /\ [](Completed => Mirrors)
    /\ [][SweepsRemoveMissing]_vars

\* the scan is done: an object of each kind was removed, a file was moved
\* or made, and a live file is in the catalog as a hardlink
C23_Witness ==
    /\ Completed
    /\ run = 1
    /\ DOMAIN load.disk.files \ DOMAIN disk.files # {}
    /\ DOMAIN load.disk.links \ DOMAIN disk.links # {}
    /\ \E l \in DOMAIN disk.links : disk.links[l].kind = "HARDLINK"
    /\ DOMAIN disk.files # {}

-----------------------------------------------------------------------------
(* C24 *)

\* the step counts one, and only one, of the given counters, by one
CountsOneOf(counters) ==
    \E counter \in counters :
        scan' = [scan EXCEPT ![counter] = @ + 1,
                             !.file_insert_list = scan'.file_insert_list,
                             !.link_insert_list = scan'.link_insert_list]

\* the search by inode of the entry c gives a file with another size or
\* time that has not been seen yet: the step goes on with the search by path
FallsThrough(c) ==
    \E g \in WithInode(c.st.st_ino) :
        /\ ~disk.files[g].present
        /\ \/ disk.files[g].size # c.st.st_size
           \/ disk.files[g].mtime_sec # c.st.st_mtime
           \/ disk.files[g].mtime_nsec \notin {c.st.st_nsec, STAT_NSEC_INVALID}

\* what a call of scan_file that returns does with the counters
CountsOnce ==
    FileStep /\ pc' = "walk" =>
        LET c == Head(local.todo)
        IN  /\ Len(log') = Len(log) + 1
            /\ IF SeenBefore(c.st) # {}
               THEN CountsOneOf({"count_equal", "count_change", "count_insert"})
               ELSE /\ CountsOneOf({"count_equal", "count_move", "count_restore",
                                    "count_change", "count_insert"})
                    /\ disk'.links = disk.links
                    /\ scan'.link_insert_list = scan.link_insert_list
            /\ FallsThrough(c) =>
                   CountsOneOf({"count_restore", "count_change", "count_insert"})

\* C24: a call of scan_file that returns adds one to exactly one counter
\* and leaves the others: one of count_equal, count_move, count_restore,
\* count_change, count_insert for the file, or, when the entry is a
\* hardlink to a file seen before, one of count_equal, count_change,
\* count_insert for the link; so does a call in which the file found by
\* inode has another size or time and the search by path follows
C24_OneCounter ==
    [][CountsOnce]_vars

\* the walk forgot the inode of a catalogued file that had another size, and
\* counted one for each entry seen so far
C24_Witness ==
    /\ pc = "walk"
    /\ ~disk.has_not_persistent_inodes
    /\ \E f \in DOMAIN disk.files :
           disk.files[f].without_inode /\ ~disk.files[f].present
    /\ CountFound = Len(Calls) - Len(local.todo)
    /\ CountFound > 0

-----------------------------------------------------------------------------
(* C25 *)

\* the place of an object in a sequence that holds it once
PlaceIn(seq, obj) == CHOOSE k \in 1..Len(seq) : seq[k] = obj

\* the key the order of the options sorts the new files by
OrderKey(f) ==
    CASE state.opt.force_order = "PHYSICAL" -> disk.files[f].physical
      [] state.opt.force_order = "INODE" -> disk.files[f].inode
      [] state.opt.force_order = "ALPHA" -> file_alpha_compare(disk.files[f])
      [] OTHER -> 0

\* the place in the walk of the entry a new file was made for
WalkPlace(f) == CHOOSE i \in 1..Len(Calls) : Calls[i].sub = disk.files[f].sub

\* before the sort the new files are listed in the order of the walk
ListedAsWalked ==
    pc = "sort" =>
        \A i, j \in 1..Len(scan.file_insert_list) :
            i < j => WalkPlace(scan.file_insert_list[i])
                         < WalkPlace(scan.file_insert_list[j])

\* the sort keeps the files, puts them in ascending order of the key and
\* leaves files of one key, and all files under the order DIR, as they were
SortsStable ==
    pc = "sort" /\ pc' = "insert" =>
        LET old == scan.file_insert_list
            new == scan'.file_insert_list
        IN  /\ Len(new) = Len(old)
            /\ \A i \in 1..Len(old) : TimesIn(new, old[i]) = 1
            /\ \A i, j \in 1..Len(new) :
                   i < j =>
                       \/ OrderKey(new[i]) < OrderKey(new[j])
                       \/ /\ OrderKey(new[i]) = OrderKey(new[j])
                          /\ PlaceIn(old, new[i]) < PlaceIn(old, new[j])

\* the positions of the blocks of a file, in the order of the blocks
SlotsOf(f) ==
    [k \in 1..Len(disk.files[f].blockvec) |-> disk.files[f].blockvec[k].parity_pos]

\* the files of the list that had their call of scan_file_insert
Inserted ==
    IF pc = "insert" THEN 1..(local.node - 1)
    ELSE IF pc \in {"insert_dirs", "check", "done"}
    THEN 1..Len(scan.file_insert_list) ELSE {}

\* a file listed before another has all its blocks on lower positions, and
\* the blocks of one file are on ascending positions
SlotsInListOrder ==
    /\ \A i, j \in Inserted :
           i < j =>
               \A p \in 1..Len(SlotsOf(scan.file_insert_list[i])) :
               \A q \in 1..Len(SlotsOf(scan.file_insert_list[j])) :
                   SlotsOf(scan.file_insert_list[i])[p]
                       < SlotsOf(scan.file_insert_list[j])[q]
    /\ \A i \in Inserted :
           \A p, q \in 1..Len(SlotsOf(scan.file_insert_list[i])) :
               p < q => SlotsOf(scan.file_insert_list[i])[p]
                            < SlotsOf(scan.file_insert_list[i])[q]

\* the first free position the insert phase of the run started from
StartFree ==
    IF hist = <<>> THEN load.disk.first_free_block
    ELSE LET low == CHOOSE p \in FreedPositions : \A q \in FreedPositions : p <= q
         IN  IF low < load.disk.first_free_block THEN low
             ELSE load.disk.first_free_block

\* the block array and the first free position after the inserts are what
\* the list gives: the new blocks are on the positions from StartFree on
\* that held no block of a file, with none left out, the first free
\* position is the one after the last of them, and the other positions hold
\* what the sweeps left
ListGivesSlots ==
    Completed =>
        /\ \A q \in NewPositions :
               /\ q >= StartFree
               /\ \A p \in StartFree..q : disk.blockarr[p + 1].kind = "file"
        /\ disk.first_free_block =
               IF NewPositions = {} THEN StartFree
               ELSE 1 + CHOOSE q \in NewPositions : \A p \in NewPositions : p <= q
        /\ \A p \in Slots \ NewPositions :
               /\ p < Len(load.disk.blockarr)
               /\ \/ disk.blockarr[p + 1] = load.disk.blockarr[p + 1]
                  \/ p \in FreedPositions /\ disk.blockarr[p + 1].kind = "deleted"

\* C25: the sorted list of the new files gives the positions. The sort
\* puts the files in ascending order of the key of the order of the options
\* and keeps the order of the walk among files of one key and under the
\* order DIR; the files get their positions in the order of the list, a
\* file listed before another has all its blocks on lower positions and
\* the blocks of one file are on ascending positions; the new blocks fill
\* the free positions from the first free one on with none left out, and
\* the first free position ends after the last of them
C25_ListGivesSlots ==
    /\ [](ListedAsWalked /\ SlotsInListOrder /\ ListGivesSlots)
    /\ [][SortsStable]_vars

\* the scan is done: three new files with blocks, the sort moved a file,
\* and two files of one physical offset are in the order of the walk
C25_Witness ==
    /\ Completed
    /\ run = 1
    /\ state.opt.force_order = "PHYSICAL"
    /\ Len(scan.file_insert_list) = 3
    /\ \A i \in 1..3 : Len(SlotsOf(scan.file_insert_list[i])) = 2
    /\ \E i, j \in 1..3 :
           /\ i < j
           /\ WalkPlace(scan.file_insert_list[i]) > WalkPlace(scan.file_insert_list[j])
    /\ \E i, j \in 1..3 :
           /\ i < j
           /\ OrderKey(scan.file_insert_list[i]) = OrderKey(scan.file_insert_list[j])
    /\ hist # <<>>

-----------------------------------------------------------------------------
(* C26 *)

\* the block array is longer after the step
Grows == Len(disk'.blockarr) > Len(disk.blockarr)

\* a call of scan_file_insert makes the block array longer only when every
\* position from the first free one of the insert phase to the end holds a
\* block of a file, and then every position up to the new end does
GrowsWhenFull ==
    InsertStep /\ Grows =>
        /\ \A p \in StartFree..(Len(disk'.blockarr) - 1) :
               disk'.blockarr[p + 1].kind = "file"
        /\ \A p \in StartFree..(Len(disk.blockarr) - 1) :
               \/ disk.blockarr[p + 1].kind = "file"
               \/ disk'.blockarr[p + 1] \in
                      {FileCell(scan.file_insert_list[local.node], k) :
                          k \in 1..Len(disk'.files[scan.file_insert_list[local.node]].blockvec)}

\* only calls of scan_file_insert make the block array longer
OnlyInsertGrows == Grows => InsertStep

\* the positions that hold an empty cell now and did not when the catalog
\* was loaded
NewEmptyPositions ==
    {p \in EmptyPositions :
        p >= Len(load.disk.blockarr) \/ load.disk.blockarr[p + 1] # BLOCK_EMPTY}

\* after a scan that made the block array longer no position this scan
\* freed holds a deleted block, and no cell is empty that was not
NothingFreedLeft ==
    Completed /\ Len(disk.blockarr) > Len(load.disk.blockarr) =>
        /\ \A p \in FreedPositions : disk.blockarr[p + 1].kind = "file"
        /\ NewEmptyPositions = {}
        /\ \A p \in StartFree..(Len(disk.blockarr) - 1) :
               disk.blockarr[p + 1].kind = "file"

\* C26: the positions this scan freed are taken again before the block
\* array grows. In the insert phase the block array is made longer only
\* when every position from the first free one at the start of the phase
\* to the end holds a block of a file; after a scan that made it longer no
\* position freed by this scan holds a deleted block and the scan left no
\* new empty cell
C26_ReuseBeforeGrow ==
    /\ [][GrowsWhenFull]_vars
    /\ [][OnlyInsertGrows]_vars
    /\ [](NothingFreedLeft)

\* the scan is done: it freed positions, the new files took them all and
\* the block array grew
C26_Witness ==
    /\ Completed
    /\ run = 1
    /\ Len(hist) >= 2
    /\ Len(disk.blockarr) > Len(load.disk.blockarr)
    /\ \E i \in 1..Len(load.disk.blockarr) : load.disk.blockarr[i].kind # "file"

-----------------------------------------------------------------------------
(* C27 *)

\* the entry, at the path sub, is one scan_dir counts as processed: a regular
\* file or a symbolic link that passes the filter of the paths, a directory
\* of the device of the disk that passes the filter of the directories
Processed(dd, sub) ==
    \/ dd.type \in {"REG", "LNK"} /\ filter_path(sub) = 0
    \/ dd.type = "DIR" /\ filter_dir(sub) = 0 /\ dd.dev = DiskDevice

\* the directories scan_dir goes into, with their paths: the directories of
\* the device of the disk that pass the filter, under such directories
RECURSIVE Walked(_, _)
Walked(entries, sub) ==
    UNION {IF entries[i].type = "DIR"
              /\ Processed(entries[i], Append(sub, entries[i].name))
           THEN {[sub |-> Append(sub, entries[i].name), dd |-> entries[i]]}
                \cup Walked(entries[i].children, Append(sub, entries[i].name))
           ELSE {} : i \in 1..Len(entries)}

\* the walked directories with no entry that counts as processed
EmptyDirs ==
    {w.sub : w \in {v \in Walked(fs.root, <<>>) :
        \A i \in 1..Len(v.dd.children) :
            ~Processed(v.dd.children[i], Append(v.sub, v.dd.children[i].name))}}

\* the paths scan_emptydir is called with
Registered == {Calls[i].sub : i \in {j \in 1..Len(Calls) : Calls[j].op = "emptydir"}}

\* C27: scan_emptydir is called for a directory if and only if scan_dir went
\* into it and processed no entry: it holds no regular file and no symbolic
\* link that passes the filter and no directory of the device of the disk
\* that passes the filter. A directory with only excluded files, special
\* files or mount points of other devices is registered, a directory with a
\* subdirectory, empty or not, is not, the root of the disk never is; it is
\* called once for each, and after the scan the empty directories of the
\* catalog are these
C27_EmptyDirs ==
    /\ Registered = EmptyDirs
    /\ <<>> \notin Registered
    /\ \A i, j \in 1..Len(Calls) :
           Calls[i].op = "emptydir" /\ Calls[j].op = "emptydir"
           /\ Calls[i].sub = Calls[j].sub => i = j
    /\ Completed => {disk.dirs[x].sub : x \in DOMAIN disk.dirs} = EmptyDirs

\* the scan is done: d holds an excluded file and an empty subdirectory e;
\* e is in the catalog and d, which was, is not
C27_Witness ==
    /\ Completed
    /\ run = 1
    /\ EmptyDirs = {<<"d", "e">>}
    /\ \E i \in 1..Len(fs.root) :
           /\ fs.root[i].name = "d"
           /\ Len(fs.root[i].children) = 2
           /\ \E k \in 1..2 : fs.root[i].children[k].type = "REG"
    /\ \E x \in DOMAIN load.disk.dirs : load.disk.dirs[x].sub = <<"d">>
    /\ \A x \in DOMAIN disk.dirs : disk.dirs[x].sub = <<"d", "e">>
    /\ DOMAIN disk.dirs # {}

-----------------------------------------------------------------------------
(* C28 *)

\* the step that follows the last call of scan_file_insert
AfterInserts == pc = "insert" /\ pc' = "insert_dirs"

\* the physical offsets of the files of a list, in the order of the list
Offsets(list) == [i \in 1..Len(list) |-> disk.files[list[i]].physical]

\* two neighbours of the sequence are equal and are not the offset of a
\* file without offset
HasDuplicate(offsets) ==
    \E i \in 2..Len(offsets) :
        offsets[i] = offsets[i - 1] /\ offsets[i] # FILEPHY_WITHOUT_OFFSET

\* the files of the list that are not empty
NotEmptyFiles(list) == SelectSeq(list, LAMBDA f : disk.files[f].size # 0)

\* has_not_reliable_physical changes in that step only, and only to true
MarkedAfterInserts ==
    /\ ~AfterInserts =>
           disk'.has_not_reliable_physical = disk.has_not_reliable_physical
    /\ disk.has_not_reliable_physical => disk'.has_not_reliable_physical

\* C28 as the spec states it: under the order PHYSICAL the disk is marked
\* when a file of the sorted list has the physical offset of the file
\* before it in the list, which is not the one of a file without offset;
\* it is not marked under another order or when there is no such file
C28_Original ==
    [][AfterInserts /\ ~disk.has_not_reliable_physical =>
           (disk'.has_not_reliable_physical <=>
                /\ state.opt.force_order = "PHYSICAL"
                /\ HasDuplicate(Offsets(scan.file_insert_list)))]_vars

\* C28: under the order PHYSICAL the disk is marked when a file of the
\* sorted list that is not empty has the physical offset of the last file
\* before it in the list that is not empty, which is not the one of a file
\* without offset; empty files are passed over. It is not marked under
\* another order or when there is no such file, and no other step changes
\* the mark
C28_NotReliablePhysical ==
    /\ [][AfterInserts /\ ~disk.has_not_reliable_physical =>
              (disk'.has_not_reliable_physical <=>
                   /\ state.opt.force_order = "PHYSICAL"
                   /\ HasDuplicate(Offsets(NotEmptyFiles(scan.file_insert_list))))]_vars
    /\ [][MarkedAfterInserts]_vars

\* the scan marked the disk: two files that are not empty have one offset,
\* and an empty file is listed between them
C28_Witness ==
    /\ Completed
    /\ run = 1
    /\ disk.has_not_reliable_physical
    /\ Len(scan.file_insert_list) = 3
    /\ disk.files[scan.file_insert_list[2]].size = 0
    /\ disk.files[scan.file_insert_list[1]].size # 0

-----------------------------------------------------------------------------
(* C29 *)

\* the blocks of the file of the step that took the position of a deleted
\* block, as <<index, deleted block>>
OverDeleted ==
    LET file == scan.file_insert_list[local.node]
    IN  {<<k, CellBefore(disk'.files[file].blockvec[k].parity_pos).id>> :
            k \in {i \in 1..Len(disk'.files[file].blockvec) :
                CellBefore(disk'.files[file].blockvec[i].parity_pos).kind = "deleted"}}

\* what a call of scan_file_insert does with the hashes of a new block and
\* of the deleted block it takes the position of
ZeroesUndeterminate ==
    InsertStep =>
        LET file == scan.file_insert_list[local.node]
        IN  \A kd \in OverDeleted :
                /\ disk'.files[file].blockvec[kd[1]].state = "CHG"
                /\ kd[2] \in DOMAIN disk'.deleted
                /\ disk'.deleted[kd[2]].state = disk.deleted[kd[2]].state
                /\ IF state.clear_undeterminate_hash
                   THEN /\ disk'.files[file].blockvec[kd[1]].hash
                               = disk.deleted[kd[2]].hash
                        /\ disk'.deleted[kd[2]].hash = disk.deleted[kd[2]].hash
                   ELSE /\ disk'.files[file].blockvec[kd[1]].hash = HASH_ZERO
                        /\ disk'.deleted[kd[2]].hash = HASH_ZERO

\* C29: when clear_undeterminate_hash is not set, a block that
\* scan_file_insert puts on the position of a deleted block is CHG with a
\* hash of all zeroes, whatever hash the deleted block held, the one kept
\* from a BLK block deleted in this scan too, and the hash of the deleted
\* block is set to zero as well; when the option is set the new block gets
\* the hash of the deleted block, which keeps it
C29_UndeterminateZeroed ==
    [][ZeroesUndeterminate]_vars

\* with the option not set, a new block took the position of a deleted
\* block made in this scan from a BLK block with a hash: both hashes are zero
C29_Witness ==
    /\ pc = "insert"
    /\ ~state.clear_undeterminate_hash
    /\ \E i \in Freed({"BLK"}) :
           /\ hist[i].hash # HASH_ZERO
           /\ disk.blockarr[hist[i].pos + 1].kind = "file"
           /\ disk.blockarr[hist[i].pos + 1].id \in NewFiles
           /\ disk.files[disk.blockarr[hist[i].pos + 1].id]
                  .blockvec[disk.blockarr[hist[i].pos + 1].idx].hash = HASH_ZERO
           /\ disk.deleted[hist[i].del].hash = HASH_ZERO

-----------------------------------------------------------------------------
(* C30 *)

\* the block array, its cells and its size, the first free position, the
\* deleted blocks and the blocks of every file stay as they are
ParityUntouched ==
    /\ disk'.blockarr = disk.blockarr
    /\ disk'.first_free_block = disk.first_free_block
    /\ disk'.deleted = disk.deleted
    /\ hist' = hist
    /\ \A f \in DOMAIN disk.files :
           /\ f \in DOMAIN disk'.files
           /\ disk'.files[f].blockvec = disk.files[f].blockvec

\* the step is a call of scan_file that reports the entry as equal, moved
\* or restored
ReconcilesFile ==
    /\ FileStep /\ Len(log') = Len(log) + 1
    /\ log'[Len(log')].ev \in {"equal", "move", "restore"}

\* the step reconciles a link, a symbolic one or a hardlink to a file seen
\* before, or an empty directory
ReconcilesLinkOrDir ==
    /\ pc = "walk" /\ local.todo # <<>> /\ local'.todo = Tail(local.todo)
    /\ \/ Head(local.todo).op \in {"link", "emptydir"}
       \/ Head(local.todo).op = "file" /\ SeenBefore(Head(local.todo).st) # {}

\* the step calls scan_file_remove, in the walk for a file that changed or
\* after it for the files that are gone, or it calls scan_file_insert
RemovesOrInserts ==
    \/ /\ FileStep
       /\ \E i \in (Len(log) + 1)..Len(log') : log'[i].ev = "update"
    \/ pc = "walk" /\ local.todo = <<>>
    \/ pc = "insert" /\ local.node <= Len(scan.file_insert_list)

ReconcileKeepsParity ==
    /\ ReconcilesFile \/ ReconcilesLinkOrDir => ParityUntouched
    /\ disk'.blockarr # disk.blockarr => RemovesOrInserts

\* C30: a step that reconciles an entry as equal, move or restore, or that
\* reconciles a link or an empty directory, leaves the blocks of every file
\* (position, state and hash), every cell of the block array, its size
\* and the first free position as they are; the block array changes only
\* in the steps that remove or insert a file
C30_ReconcileKeepsParity ==
    [][ReconcileKeepsParity]_vars

\* a scan reported an equal file and a moved one, and the file moved has its
\* blocks in the block array
C30_Witness ==
    /\ pc = "walk"
    /\ Events(log, "move") # {}
    /\ Events(log, "equal") # {}
    /\ \E f \in DOMAIN disk.files :
           /\ disk.files[f].present
           /\ disk.files[f].blockvec # <<>>
           /\ \E i \in Events(log, "move") : log[i].to = disk.files[f].sub

-----------------------------------------------------------------------------
(* C31 *)

\* the inode set has no two files with one inode
InodeUnique ==
    \A k, m \in 1..Len(disk.inodeset) :
        k # m =>
            /\ disk.inodeset[k] # disk.inodeset[m]
            /\ disk.files[disk.inodeset[k]].inode
                   # disk.files[disk.inodeset[m]].inode

\* the file is in the inode set, not flagged without inode, with the given
\* inode
HasInode(d, f, ino) ==
    /\ ~d.files[f].without_inode
    /\ d.files[f].inode = ino
    /\ Cardinality({k \in 1..Len(d.inodeset) : d.inodeset[k] = f}) = 1

\* every file has the inode the walk saw under the path of the file
SurvivorsHaveInode ==
    \A f \in DOMAIN disk.files :
        /\ CallsAt(disk.files[f].sub) # {}
        /\ \A i \in CallsAt(disk.files[f].sub) :
               /\ Calls[i].op = "file"
               /\ HasInode(disk, f, Calls[i].st.st_ino)

\* a file without inode has not been found in this scan
ForgottenNotSeen ==
    \A f \in DOMAIN disk.files :
        disk.files[f].without_inode =>
            /\ ~disk.files[f].present
            /\ f \in KeptFiles
            /\ pc \in {"start", "walk", "fatal"}

\* the files whose inode the call of scan_file for the entry c forgets
Forgets(c) ==
    {g \in WithInode(c.st.st_ino) : ~file_not_changed(disk.files[g], c.st)}

\* a call of scan_file that returns: the file it marks PRESENT has the inode
\* seen; a file whose inode it forgets is, after the call, without inode
\* and out of the inode set, or found by path and removed as changed; a
\* file without inode under the path seen stays so only when the search by
\* inode settles the entry, as a hardlink or as a move
RestoresOrForgets ==
    FileStep /\ pc' = "walk" =>
        LET c == Head(local.todo)
        IN  /\ \A f \in DOMAIN disk'.files :
                   /\ disk'.files[f].present
                   /\ f \in DOMAIN disk.files => ~disk.files[f].present
                   => /\ HasInode(disk', f, c.st.st_ino)
                      /\ disk'.files[f].sub = c.sub
            /\ \A g \in Forgets(c) :
                   IF disk.files[g].sub = c.sub
                   THEN g \notin DOMAIN disk'.files
                   ELSE /\ g \in DOMAIN disk'.files
                        /\ disk'.files[g].without_inode
                        /\ disk'.files[g].inode = 0
                        /\ \A k \in 1..Len(disk'.inodeset) : disk'.inodeset[k] # g
            /\ \A f \in DOMAIN disk.files :
                   disk.files[f].without_inode /\ disk.files[f].sub = c.sub
                   /\ f \in DOMAIN disk'.files /\ disk'.files[f].without_inode
                   => \/ SeenBefore(c.st) # {}
                      \/ \E r \in Events(log', "move") : r = Len(log')

\* C31: between the calls of the walk the inode set holds at most one file
\* for an inode; after a completed scan every file is in the inode set,
\* not flagged without inode, with the inode seen under its path, on disks
\* without persistent inodes too; a file of the catalog whose inode was
\* seen on an entry with another size or time is without inode until it is
\* found by path, which gives it the inode seen, and when it is not found
\* the sweep removes it
C31_InodeIndex ==
    /\ [](InodeUnique /\ ForgottenNotSeen)
    /\ [](Completed => SurvivorsHaveInode)
    /\ [][RestoresOrForgets]_vars

\* on a disk with persistent inodes the inode of a file of the catalog was
\* seen on a new file with another size, and the file, found by path later,
\* has the inode seen under its path
C31_Witness ==
    /\ Completed
    /\ ~disk.has_not_persistent_inodes
    /\ \E f \in KeptFiles, n \in NewFiles :
           /\ disk.files[n].inode = load.disk.files[f].inode
           /\ disk.files[f].inode # load.disk.files[f].inode
           /\ disk.files[f].size # disk.files[n].size
           /\ \E r \in Events(log, "restore") : log[r].sub = disk.files[f].sub

====
